---- MODULE Spec2Model ----
(***************************************************************************)
(* Verification model of the ArduinoSimulator circuit core:               *)
(*   - the Circuit graph (Circuit.cpp, Node.cpp, ElectricalComponent.cpp) *)
(*   - the re-solve scheduler of CircuitSimulator.cpp                     *)
(*   - the nodal stamping pass and the dense solver (MatrixSolver.cpp)    *)
(*                                                                         *)
(* Objects are identified by their address.  Node addresses are 1..MaxNodes*)
(* and 0 is the null pointer.  deleteLater() marks an object "pending";   *)
(* the event loop (ProcessDeferredDeletes) frees it.  A freed address may  *)
(* be handed out again by a later `new`.  A call made through a pointer to *)
(* a freed object is undefined behaviour: the run then moves to the state  *)
(* `crashed`, which stands for every outcome the build can produce (a      *)
(* crash, stale data, a write into an unrelated object); nothing is        *)
(* guaranteed of the program from there on.                                *)
(***************************************************************************)
EXTENDS Integers, Sequences, FiniteSets, TLC

\* ---------------------------------------------------------------- bounds
MaxNodes == 3
MaxCalls == 4
MaxTime == 6
\* solves completed without a re-initialisation (m_simulationTime / m_timeStep)
MaxSimTime == 2

\* ------------------------------------------------------------- universes
Null == 0
NullComp == "nullptr"
NodeIds == 1..MaxNodes
Resistors == {"r1"}
Pins == {"p13"}
Wires == {"w1"}
Leds == {"led1"}
\* Arduino::getGroundPin: the ArduinoPowerPin of type GROUND
PowerPins == {"gnd"}
Comps == Resistors \cup Pins \cup Wires \cup Leds \cup PowerPins
Names == {"GND", "GROUND", "VCC"}

\* m_minUpdateIntervalMs, in ticks of the model clock
MinInterval == 2

VARIABLES
    circuit,    \* the Circuit with its Node and Component objects
    pins,       \* the ArduinoPin objects of the board
    sim,        \* the CircuitSimulator
    now,        \* the wall clock, in milliseconds
    obs,        \* history of the run, used to state the properties
    crashed,    \* undefined behaviour has occurred
    calls       \* number of editing calls and event-loop turns so far

vars == <<circuit, pins, sim, now, obs, crashed, calls>>

\* ------------------------------------------------------------- rationals
\* electrical quantities are exact fractions <<numerator, denominator>>
Abs(x) == IF x < 0 THEN -x ELSE x

RECURSIVE Gcd(_, _)
Gcd(a, b) == IF b = 0 THEN a ELSE Gcd(b, a % b)

Norm(n, d) ==
    LET k == Gcd(Abs(n), Abs(d))
        sg == IF d < 0 THEN -1 ELSE 1
    IN <<sg * (n \div k), sg * (d \div k)>>

Rat(n) == <<n, 1>>
RZero == <<0, 1>>
RNeg(a) == <<-a[1], a[2]>>
RAbs(a) == <<Abs(a[1]), a[2]>>
RAdd(a, b) ==
    LET k == Gcd(a[2], b[2])
    IN Norm(a[1] * (b[2] \div k) + b[1] * (a[2] \div k), (a[2] \div k) * b[2])
RSub(a, b) == RAdd(a, RNeg(b))
RMul(a, b) ==
    LET k1 == Gcd(Abs(a[1]), b[2])
        k2 == Gcd(Abs(b[1]), a[2])
    IN Norm((a[1] \div k1) * (b[1] \div k2), (a[2] \div k2) * (b[2] \div k1))
RDiv(a, b) == RMul(a, IF b[1] < 0 THEN <<-b[2], -b[1]>> ELSE <<b[2], b[1]>>)
\* a/b < c/d for positive b and d, by the integer parts and then the
\* reciprocals of the fractional parts (no product is formed)
RECURSIVE FracLt(_, _, _, _)
FracLt(a, b, c, d) ==
    IF a \div b # c \div d THEN a \div b < c \div d
    ELSE IF c % d = 0 THEN FALSE
    ELSE IF a % b = 0 THEN TRUE
    ELSE FracLt(d, c % d, b, a % b)

RLt(a, b) == FracLt(a[1], a[2], b[1], b[2])
\* |x| < 1e-10 (m_epsilon): a fraction of 32-bit integers is that small only
\* if it is zero
IsTiny(x) == x[1] = 0

\* ---------------------------------------------------------- list helpers
Range(s) == {s[i] : i \in 1..Len(s)}

contains(s, x) == x \in Range(s)

IndexOf(s, x) == CHOOSE i \in 1..Len(s) : s[i] = x /\ \A j \in 1..(i - 1) : s[j] # x

\* QVector::removeOne: removes the first occurrence, if any
removeOne(s, x) ==
    IF contains(s, x)
    THEN SubSeq(s, 1, IndexOf(s, x) - 1) \o SubSeq(s, IndexOf(s, x) + 1, Len(s))
    ELSE s

\* ------------------------------------------------------ component model
getTerminalCount(c) == IF c \in Pins \cup PowerPins THEN 1 ELSE 2

ValidTerminal(c, t) == t >= 0 /\ t < getTerminalCount(c)

\* Component::getNode
getNode(g, c, t) == IF ValidTerminal(c, t) THEN g.m_terminals[c][t] ELSE Null

\* a call through the node pointer n / the component pointer c: undefined
\* behaviour when the object at that address has been freed
touch(g, n) == [g EXCEPT !.ub = @ \/ g.nodeMem[n] = "free"]

touchComp(g, c) == [g EXCEPT !.ub = @ \/ g.compMem[c] = "free"]

\* Node::addComponent
Node_addComponent(g, n, c, t) ==
    [touch(g, n) EXCEPT !.m_connections[n] = Append(@, <<c, t>>)]

\* Node::removeComponent: drops every pair of the component, whatever its terminal
Node_removeComponent(g, n, c) ==
    [touch(g, n) EXCEPT !.m_connections[n] = SelectSeq(@, LAMBDA p : p[1] # c)]

\* ElectricalComponent::connectToNode: overwrites the terminal entry
connectToNode(g, c, n, t) ==
    IF ValidTerminal(c, t)
    THEN LET g1 == [g EXCEPT !.m_terminals[c][t] = n]
         IN IF n # Null THEN Node_addComponent(g1, n, c, t) ELSE g1
    ELSE g

\* ElectricalComponent::disconnectFromNode
disconnectFromNode(g, c, t) ==
    IF ValidTerminal(c, t) /\ g.m_terminals[c][t] # Null
    THEN LET g1 == Node_removeComponent(g, g.m_terminals[c][t], c)
         IN [g1 EXCEPT !.m_terminals[c][t] = Null]
    ELSE g

\* --------------------------------------------------------------- circuit
FreeNodeAddrs(g) == {n \in NodeIds : g.nodeMem[n] = "free"}

\* Circuit::createNode with the address `new Node` returned
createNode(g, n) ==
    [g EXCEPT !.m_nodes = Append(@, n),
              !.nodeMem[n] = "live",
              !.m_connections[n] = <<>>,
              !.m_isGround[n] = FALSE,
              !.node_voltage[n] = 0]

\* Circuit::removeNode
removeNode(g, n) ==
    IF contains(g.m_nodes, n)
    THEN [touch(g, n) EXCEPT !.m_nodes = removeOne(@, n),
                             !.nodeMem[n] = "pending"]
    ELSE g

\* emit circuitChanged()
emitCircuitChanged(g) == [g EXCEPT !.emitted = @ + 1]

\* Circuit::addComponent
addComponent(g, c) ==
    IF c # NullComp /\ ~contains(g.m_components, c)
    THEN emitCircuitChanged(
           [g EXCEPT !.m_externalComponents =
                         IF c \in Pins \cup PowerPins THEN @ \cup {c} ELSE @,
                     !.m_components = Append(@, c)])
    ELSE g

\* Circuit::disconnectComponent(Component*): all terminals, no pruning
RECURSIVE disconnectAll(_, _, _)
disconnectAll(g, c, i) ==
    IF i >= getTerminalCount(c) THEN g
    ELSE disconnectAll(IF getNode(g, c, i) # Null
                       THEN disconnectFromNode(g, c, i) ELSE g, c, i + 1)

\* removeComponentSafely that schedules every removed component for deletion
removeComponentSafely_deleteAlways(g, c) ==
    IF c = NullComp THEN g
    ELSE LET g1 == disconnectAll(g, c, 0)
         IN IF contains(g1.m_components, c)
            THEN emitCircuitChanged(
                   [g1 EXCEPT !.m_components = removeOne(@, c),
                              !.compMem[c] = "pending",
                              !.m_externalComponents = @ \ {c}])
            ELSE g1

\* Circuit::removeComponentSafely
removeComponentSafely(g, c) ==
    IF c = NullComp THEN g
    ELSE LET g1 == disconnectAll(g, c, 0)
         IN IF contains(g1.m_components, c)
            THEN emitCircuitChanged(
                   [g1 EXCEPT !.m_components = removeOne(@, c),
                              !.compMem[c] =
                                  IF c \notin g1.m_externalComponents
                                  THEN "pending" ELSE @,
                              !.m_externalComponents = @ \ {c}])
            ELSE g1

\* Circuit::removeAllComponents: every component of a copy of the list is
\* removed, then both lists are cleared
RECURSIVE removeEach(_, _, _)
removeEach(g, componentsCopy, i) ==
    IF i > Len(componentsCopy) THEN g
    ELSE removeEach(removeComponentSafely(g, componentsCopy[i]), componentsCopy, i + 1)

removeAllComponents(g) ==
    [removeEach(g, g.m_components, 1) EXCEPT !.m_components = <<>>,
                                             !.m_externalComponents = {}]

\* Circuit::clearArduinoConnections; allPins is Arduino::getAllPins()
RECURSIVE clearPins(_, _, _)
clearPins(g, allPins, i) ==
    IF i > Len(allPins) THEN g
    ELSE clearPins(IF contains(g.m_components, allPins[i])
                   THEN removeComponentSafely(
                            [g EXCEPT !.m_externalComponents = @ \cup {allPins[i]}],
                            allPins[i])
                   ELSE g,
                   allPins, i + 1)

clearArduinoConnections(g, arduino) ==
    IF ~arduino THEN g ELSE clearPins(g, <<"p13">>, 1)

\* Circuit::setGroundNode
setGroundNode(g, n) ==
    IF n # Null /\ n # g.m_groundNode
    THEN LET oldGround == g.m_groundNode
             g1 == [touch(g, n) EXCEPT !.m_groundNode = n,
                                       !.m_isGround[n] = TRUE,
                                       !.node_voltage[n] = 0,
                                       !.m_namedNodes["GND"] = n,
                                       !.m_namedNodes["GROUND"] = n]
         IN IF oldGround # Null
            THEN LET g2 == touch(g1, oldGround)
                 IN IF g2.m_connections[oldGround] = <<>>
                    THEN removeNode(g2, oldGround) ELSE g2
            ELSE g1
    ELSE g

\* the loop of the merge branch of Circuit::connectComponents
RECURSIVE mergeConnections(_, _, _, _)
mergeConnections(g, conns, i, node1) ==
    IF i > Len(conns) THEN g
    ELSE mergeConnections(
             connectToNode(disconnectFromNode(touchComp(g, conns[i][1]),
                                              conns[i][1], conns[i][2]),
                           conns[i][1], node1, conns[i][2]),
             conns, i + 1, node1)

\* Circuit::connectComponents; fresh is the address a `new Node` would get.
\* Returns the new state and the boolean result.
connectComponents(g, comp1, terminal1, comp2, terminal2, fresh) ==
    IF comp1 = NullComp \/ comp2 = NullComp
    THEN [g |-> g, ret |-> FALSE]
    ELSE IF ~ValidTerminal(comp1, terminal1) \/ ~ValidTerminal(comp2, terminal2)
    THEN [g |-> g, ret |-> FALSE]
    ELSE LET node1 == getNode(g, comp1, terminal1)
             node2 == getNode(g, comp2, terminal2)
         IN IF node1 # Null /\ node2 # Null /\ node1 = node2
            THEN [g |-> g, ret |-> TRUE]
            ELSE IF node1 = Null /\ node2 = Null
            THEN [g |-> connectToNode(
                            connectToNode(createNode(g, fresh), comp1, fresh, terminal1),
                            comp2, fresh, terminal2),
                  ret |-> TRUE]
            ELSE IF node1 # Null /\ node2 = Null
            THEN [g |-> connectToNode(g, comp2, node1, terminal2), ret |-> TRUE]
            ELSE IF node2 # Null /\ node1 = Null
            THEN [g |-> connectToNode(g, comp1, node2, terminal1), ret |-> TRUE]
            ELSE LET g0 == touch(g, node2)
                     g1 == mergeConnections(g0, g0.m_connections[node2], 1, node1)
                 IN [g |-> removeNode(g1, node2), ret |-> TRUE]

\* connectComponentToNode without the check of the terminal index
connectComponentToNode_noRangeCheck(g, c, t, n) ==
    IF c = NullComp \/ n = Null THEN [g |-> g, ret |-> FALSE]
    ELSE [g |-> connectToNode(g, c, n, t), ret |-> TRUE]

\* Circuit::connectComponentToNode
connectComponentToNode(g, c, t, n) ==
    IF c = NullComp \/ n = Null THEN [g |-> g, ret |-> FALSE]
    ELSE IF ~ValidTerminal(c, t) THEN [g |-> g, ret |-> FALSE]
    ELSE [g |-> connectToNode(g, c, n, t), ret |-> TRUE]

\* Circuit::disconnectComponent(Component*, int)
disconnectComponent(g, c, t) ==
    IF c = NullComp THEN g
    ELSE IF ~ValidTerminal(c, t) THEN g
    ELSE LET node == getNode(g, c, t)
             g1 == disconnectFromNode(g, c, t)
         IN IF node # Null
            THEN LET g2 == touch(g1, node)
                 IN IF g2.m_connections[node] = <<>> /\ node # g2.m_groundNode
                    THEN removeNode(g2, node) ELSE g2
            ELSE g1

\* the duplicate search of Circuit::addWire: first wire of m_wires across the pair
ExistingWires(g, fromNode, toNode) ==
    {i \in 1..Len(g.m_wires) :
        \/ (getNode(g, g.m_wires[i], 0) = fromNode /\ getNode(g, g.m_wires[i], 1) = toNode)
        \/ (getNode(g, g.m_wires[i], 0) = toNode /\ getNode(g, g.m_wires[i], 1) = fromNode)}

\* Circuit::addWire; w is the address `new Wire` would get
addWire(g, fromNode, toNode, w) ==
    IF fromNode = Null \/ toNode = Null THEN [g |-> g, ret |-> NullComp]
    ELSE IF fromNode = toNode THEN [g |-> g, ret |-> NullComp]
    ELSE LET g0 == [g EXCEPT !.ub = @ \/ \E i \in 1..Len(g.m_wires) :
                                              g.compMem[g.m_wires[i]] = "free"]
         IN IF ExistingWires(g0, fromNode, toNode) # {}
            THEN [g |-> g0,
                  ret |-> g0.m_wires[CHOOSE i \in ExistingWires(g0, fromNode, toNode) :
                                 \A j \in ExistingWires(g0, fromNode, toNode) : i <= j]]
            ELSE LET g1 == [g0 EXCEPT !.compMem[w] = "live",
                                      !.m_terminals[w] = [t \in 0..1 |-> Null]]
                     g2 == connectToNode(connectToNode(g1, w, fromNode, 0), w, toNode, 1)
                     g3 == [g2 EXCEPT !.m_wires = Append(@, w)]
                 IN [g |-> addComponent(g3, w), ret |-> w]

\* Circuit::findOrCreateNode for a non-empty name
findOrCreateNode(g, name, fresh) ==
    IF g.m_namedNodes[name] # Null
    THEN [g |-> g, ret |-> g.m_namedNodes[name]]
    ELSE [g |-> [createNode(g, fresh) EXCEPT !.m_namedNodes[name] = fresh],
          ret |-> fresh]

\* Circuit::getConnectionIssues: the issues as a set; a node of the node list
\* with fewer than two connections that is not the ground node is reported as
\* floating, a component without any bound terminal as not connected
getConnectionIssues(g) ==
    {<<"floating node", n>> : n \in {x \in Range(g.m_nodes) :
        Len(g.m_connections[x]) < 2 /\ ~g.m_isGround[x]}}
    \cup {<<"not connected", c>> : c \in {x \in Range(g.m_components) :
        \A t \in 0..(getTerminalCount(x) - 1) : getNode(g, x, t) = Null}}
    \cup (IF g.m_groundNode = Null THEN {<<"no ground node", Null>>} ELSE {})

\* Arduino::Arduino for the Uno: D0-D13 and A0-A5.  Of the pin objects of the
\* board the model holds D13; the callers pass its number or a number the board
\* does not have.
m_digitalPinCount == 14
m_analogPinCount == 6
m_digitalPins == [i \in {13} |-> "p13"]
m_analogPins == [i \in {} |-> NullComp]
PinNumbers == {-1, 13, 14}

\* Arduino::findDigitalPin, Arduino::findAnalogPin
findDigitalPin(pin) ==
    IF pin >= 0 /\ pin < m_digitalPinCount THEN m_digitalPins[pin] ELSE NullComp

findAnalogPin(pin) ==
    IF pin >= 0 /\ pin < m_analogPinCount THEN m_analogPins[pin] ELSE NullComp

\* the pin lookup of connectArduinoPin / disconnectArduinoPin: getPin, then
\* getAnalogPin
lookupPin(pinNumber) ==
    IF findDigitalPin(pinNumber) # NullComp THEN findDigitalPin(pinNumber)
    ELSE findAnalogPin(pinNumber)

\* Circuit::connectArduinoPin; arduino tells whether the Arduino* is non-null
connectArduinoPin(g, arduino, pinNumber, node) ==
    IF ~arduino \/ node = Null THEN [g |-> g, ret |-> FALSE]
    ELSE IF lookupPin(pinNumber) = NullComp THEN [g |-> g, ret |-> FALSE]
    ELSE LET pin == lookupPin(pinNumber)
             g1 == IF ~contains(g.m_components, pin) THEN addComponent(g, pin) ELSE g
         IN [g |-> connectToNode(g1, pin, node, 0), ret |-> TRUE]

\* Circuit::disconnectArduinoPin
disconnectArduinoPin(g, arduino, pinNumber) ==
    IF ~arduino THEN g
    ELSE IF lookupPin(pinNumber) = NullComp THEN g
    ELSE disconnectFromNode(g, lookupPin(pinNumber), 0)

\* ------------------------------------------------------------------ pins
PinModes == {"INPUT", "INPUT_PULLUP", "OUTPUT", "ANALOG_INPUT", "ANALOG_OUTPUT"}
VCC == Rat(5)
GND == Rat(0)

\* ArduinoPin::ArduinoPin: output and input resistance in ohms, current limit
\* in amperes (0.04)
m_outputResistance == Rat(25)
m_inputResistance == Rat(1000000000)
m_maxCurrent == <<1, 25>>

\* Arduino::Arduino, the board table: digital pin count and PWM pins per board
BoardTypes == {"UNO", "NANO", "MEGA"}

boardDigitalPinCount(board) == IF board = "MEGA" THEN 54 ELSE 14

m_pwmPins(board) == IF board = "MEGA" THEN 2..13 ELSE {3, 5, 6, 9, 10, 11}

\* DigitalPin::DigitalPin: the PWM pins are the fixed list of the constructor;
\* a pin that supports PWM owns a (stopped) m_pwmTimer
pwmPins == {3, 5, 6, 9, 10, 11}

isOutput(p) == p.m_mode \in {"OUTPUT", "ANALOG_OUTPUT"}

isInput(p) == p.m_mode \in {"INPUT", "INPUT_PULLUP", "ANALOG_INPUT"}

\* emit <signal>() of a pin: the signals of the running call, in order
emit(p, signal) == [p EXCEPT !.emitted = Append(@, signal)]

\* the signals have reached their slots (Arduino::onPinModeChanged,
\* onPinValueChanged and onPinOverloaded only re-emit them)
delivered(p) == [p EXCEPT !.emitted = <<>>]

\* a variant of setMode that leaves the output voltage and current in place
setMode_keepOutput(p, mode) ==
    IF p.m_mode # mode
    THEN emit(emit([p EXCEPT !.m_mode = mode], "pinModeChanged"), "componentChanged")
    ELSE p

\* ArduinoPin::setMode
setMode(p, mode) ==
    IF p.m_mode # mode
    THEN emit(emit([p EXCEPT !.m_mode = mode,
                             !.m_outputVoltage = IF isOutput(p) THEN Rat(0) ELSE @,
                             !.m_outputCurrent = IF isOutput(p) THEN Rat(0) ELSE @],
                   "pinModeChanged"), "componentChanged")
    ELSE p

\* DigitalPin::updateOutputState
updateOutputState(p) ==
    IF p.m_mode = "OUTPUT" THEN [p EXCEPT !.m_outputVoltage = p.m_setValue] ELSE p

\* a variant of digitalWrite that leaves a running PWM alone
digitalWrite_keepPWM(p, value) ==
    IF p.m_mode # "OUTPUT" THEN p
    ELSE emit(emit(updateOutputState([p EXCEPT !.m_digitalState = value,
                                               !.m_setValue = IF value THEN VCC ELSE GND]),
                   "pinValueChanged"), "componentChanged")

\* DigitalPin::digitalWrite
digitalWrite(p, value) ==
    IF p.m_mode # "OUTPUT" THEN p
    ELSE LET p1 == [p EXCEPT !.m_digitalState = value,
                             !.m_setValue = IF value THEN VCC ELSE GND]
             p2 == IF p1.m_supportsPWM /\ p1.pwmTimerActive
                   THEN [p1 EXCEPT !.pwmTimerActive = FALSE, !.m_pwmValue = 0]
                   ELSE p1
         IN emit(emit(updateOutputState(p2), "pinValueChanged"), "componentChanged")

\* DigitalPin::digitalRead
digitalRead(p) ==
    IF ~isInput(p) THEN FALSE
    ELSE RLt(RDiv(VCC, Rat(2)), p.m_inputVoltage)

\* std::clamp(value, 0, 255)
clamp(value, lo, hi) == IF value < lo THEN lo ELSE IF value > hi THEN hi ELSE value

\* DigitalPin::calculatePWMVoltage
calculatePWMVoltage(p) == RMul(Norm(p.m_pwmValue, 255), VCC)

\* DigitalPin::analogWrite
analogWrite(p, value) ==
    IF ~p.m_supportsPWM THEN p
    ELSE IF p.m_mode # "OUTPUT" THEN p
    ELSE LET p1 == [p EXCEPT !.m_pwmValue = clamp(value, 0, 255)]
             p2 == [p1 EXCEPT !.m_setValue = calculatePWMVoltage(p1),
                              !.pwmTimerActive = TRUE]
         IN emit(emit(updateOutputState(p2), "pinValueChanged"), "componentChanged")

\* DigitalPin::updatePWMOutput, the slot of m_pwmTimer
updatePWMOutput(p) ==
    emit([p EXCEPT !.m_pwmPhase = ~@,
                   !.m_outputVoltage = calculatePWMVoltage(p)],
         "componentChanged")

\* ArduinoPin::getResistance
ArduinoPin_getResistance(p) ==
    IF isOutput(p) THEN m_outputResistance
    ELSE IF p.m_mode = "INPUT_PULLUP" THEN Rat(50000)
    ELSE m_inputResistance

\* a variant of checkOverloadCondition that emits pinOverloaded whenever the
\* pin is found overloaded
checkOverloadCondition_levelTriggered(p) ==
    LET overloaded == isOutput(p) /\ RLt(m_maxCurrent, RAbs(p.m_outputCurrent))
        p1 == [p EXCEPT !.m_isOverloaded = overloaded]
    IN IF overloaded THEN emit(p1, "pinOverloaded") ELSE p1

\* ArduinoPin::checkOverloadCondition
checkOverloadCondition(p) ==
    LET overloaded == isOutput(p) /\ RLt(m_maxCurrent, RAbs(p.m_outputCurrent))
        p1 == [p EXCEPT !.m_isOverloaded = overloaded]
    IN IF ~p.m_isOverloaded /\ overloaded THEN emit(p1, "pinOverloaded") ELSE p1

\* ArduinoPin::updateState, the part that lives in the pin object; prevVoltage
\* and prevCurrent are m_voltage and m_current before the update
ArduinoPin_updateState(p, prevVoltage, prevCurrent, voltage, current) ==
    LET p1 == checkOverloadCondition(
                 IF isOutput(p)
                 THEN updateOutputState([p EXCEPT !.m_outputCurrent = current])
                 ELSE [p EXCEPT !.m_inputVoltage = voltage])
    IN IF \/ RLt(<<1, 100>>, RAbs(RSub(voltage, prevVoltage)))
          \/ RLt(<<1, 1000>>, RAbs(RSub(current, prevCurrent)))
       THEN emit(p1, "pinValueChanged")
       ELSE p1

\* ArduinoPin::ArduinoPin, DigitalPin::DigitalPin for pin pinNumber of a board
DigitalPin(pinNumber, board) ==
    [m_pinNumber |-> pinNumber,
     m_boardType |-> board,
     m_mode |-> "INPUT",
     m_digitalState |-> FALSE,
     m_setValue |-> Rat(0),
     m_outputVoltage |-> Rat(0),
     m_inputVoltage |-> Rat(0),
     m_outputCurrent |-> Rat(0),
     m_isOverloaded |-> FALSE,
     m_supportsPWM |-> pinNumber \in pwmPins,
     m_pwmValue |-> 0,
     m_pwmPhase |-> FALSE,
     pwmTimerActive |-> FALSE,
     emitted |-> <<>>]

\* the board of the circuit scenarios: an Uno, of which the model holds D13
InitPins == pins = [p \in Pins |-> DigitalPin(13, "UNO")]

\* --------------------------------------------------------- MatrixSolver
\* The dense solver of the build without Eigen.  The matrix m_conductanceMatrix
\* is A, the right-hand side m_rightHandSide is b, the solution m_solution is x;
\* rows and columns are numbered from 0 as in the code.
Dim(d) == 0..(d - 1)

\* MatrixSolver::setDimension followed by MatrixSolver::clear
clear(d) ==
    [dim |-> d,
     A |-> [i \in Dim(d) |-> [j \in Dim(d) |-> RZero]],
     b |-> [i \in Dim(d) |-> RZero],
     x |-> [i \in Dim(d) |-> RZero]]

\* MatrixSolver::addConductance; nodeB = -1 stands for "the reference"
addConductance(m, nodeA, nodeB, conductance) ==
    IF conductance[1] <= 0 THEN m
    ELSE IF nodeB = -1
    THEN IF nodeA \in Dim(m.dim)
         THEN [m EXCEPT !.A[nodeA][nodeA] = RAdd(@, conductance)]
         ELSE m
    ELSE IF nodeA \in Dim(m.dim) /\ nodeB \in Dim(m.dim)
    THEN [m EXCEPT !.A[nodeA][nodeA] = RAdd(@, conductance),
                   !.A[nodeB][nodeB] = RAdd(@, conductance),
                   !.A[nodeA][nodeB] = RSub(@, conductance),
                   !.A[nodeB][nodeA] = RSub(@, conductance)]
    ELSE m

\* MatrixSolver::setNodeVoltage: the row becomes the identity row
setNodeVoltage(m, node, voltage) ==
    IF node \notin Dim(m.dim) THEN m
    ELSE [m EXCEPT !.A[node] = [j \in Dim(m.dim) |-> IF j = node THEN Rat(1) ELSE RZero],
                   !.b[node] = voltage]

\* MatrixSolver::addVoltageSource
addVoltageSource(m, nodeA, nodeB, voltage) ==
    IF nodeB = -1
    THEN IF nodeA \in Dim(m.dim) THEN setNodeVoltage(m, nodeA, voltage) ELSE m
    ELSE IF nodeA \in Dim(m.dim) /\ nodeB \in Dim(m.dim)
    THEN setNodeVoltage(setNodeVoltage(m, nodeA, voltage), nodeB, RZero)
    ELSE m

\* MatrixSolver::findPivotRow: the first row, from startRow on, with the
\* largest magnitude in column startRow
findPivotRow(m, startRow) ==
    CHOOSE r \in startRow..(m.dim - 1) :
        /\ \A i \in startRow..(m.dim - 1) :
              ~RLt(RAbs(m.A[r][startRow]), RAbs(m.A[i][startRow]))
        /\ \A i \in startRow..(r - 1) :
              RLt(RAbs(m.A[i][startRow]), RAbs(m.A[r][startRow]))

\* MatrixSolver::swapRows
swapRows(m, row1, row2) ==
    [m EXCEPT !.A[row1] = m.A[row2], !.A[row2] = m.A[row1],
              !.b[row1] = m.b[row2], !.b[row2] = m.b[row1]]

\* one round of the outer loop of gaussianElimination for a usable pivot:
\* normalise row i, then eliminate column i from the rows below
eliminateColumn(m, i) ==
    LET pivot == m.A[i][i]
        m1 == [m EXCEPT !.A[i] = [j \in Dim(m.dim) |->
                                     IF j >= i THEN RDiv(m.A[i][j], pivot) ELSE m.A[i][j]],
                        !.b[i] = RDiv(@, pivot)]
    IN [m1 EXCEPT
          !.A = [k \in Dim(m.dim) |->
                   IF k > i /\ ~IsTiny(m1.A[k][i])
                   THEN [j \in Dim(m.dim) |->
                           IF j >= i
                           THEN RSub(m1.A[k][j], RMul(m1.A[k][i], m1.A[i][j]))
                           ELSE m1.A[k][j]]
                   ELSE m1.A[k]],
          !.b = [k \in Dim(m.dim) |->
                   IF k > i /\ ~IsTiny(m1.A[k][i])
                   THEN RSub(m1.b[k], RMul(m1.A[k][i], m1.b[i]))
                   ELSE m1.b[k]]]

\* MatrixSolver::gaussianElimination from row i on; ok is its return value
RECURSIVE gaussianElimination(_, _)
gaussianElimination(m, i) ==
    IF i >= m.dim THEN [m |-> m, ok |-> TRUE]
    ELSE LET pivotRow == findPivotRow(m, i)
         IN IF IsTiny(m.A[pivotRow][i])
            THEN [m |-> m, ok |-> FALSE]
            ELSE gaussianElimination(eliminateColumn(swapRows(m, i, pivotRow), i), i + 1)

\* MatrixSolver::backSubstitution from row i down to row 0
RECURSIVE backSubstitution(_, _)
backSubstitution(m, i) ==
    IF i < 0 THEN m
    ELSE LET RECURSIVE acc(_, _)
             acc(v, j) == IF j >= m.dim THEN v
                          ELSE acc(RSub(v, RMul(m.A[i][j], m.x[j])), j + 1)
         IN backSubstitution([m EXCEPT !.x[i] = acc(m.b[i], i + 1)], i - 1)

\* MatrixSolver::solve
MatrixSolver_solve(m) ==
    IF m.dim = 0 THEN [m |-> m, ok |-> FALSE]
    ELSE LET r == gaussianElimination(m, 0)
         IN IF r.ok THEN [m |-> backSubstitution(r.m, m.dim - 1), ok |-> TRUE]
            ELSE r

\* ------------------------------------------------------------ simulator
\* m_lastUpdateTime.elapsed() at time t
elapsed(s, t) == t - s.m_lastUpdateTime

Max(a, b) == IF a > b THEN a ELSE b

\* Resistor::Resistor (default value) and Wire::IDEAL_RESISTANCE, in ohms
m_resistance == Rat(1000)
IDEAL_RESISTANCE == <<1, 1000000>>

\* the threshold of buildMatrices above which an output pin is a voltage
\* source (0.01 V), and m_convergenceTolerance (1e-6)
OutputThreshold == <<1, 100>>
m_convergenceTolerance == <<1, 1000000>>
m_maxIterations == 100

\* LED::LED for a red LED: forward voltage 1.8 V, forward current 0.02 A,
\* maximum current 0.025 A, thermal limit 0.1 W; LED.h: OFF_RESISTANCE 1e6 ohms,
\* MIN_CONDUCTION_CURRENT 1e-6 A
m_forwardVoltage == <<9, 5>>
m_forwardCurrent == <<1, 50>>
LED_m_maxCurrent == <<1, 40>>
m_thermalLimit == <<1, 10>>
OFF_RESISTANCE == Rat(1000000)
MIN_CONDUCTION_CURRENT == <<1, 1000000>>

\* a <= b on fractions
RLe(a, b) == ~RLt(b, a)

\* LED::calculateBrightness: linear up to the forward current; above it
\* min(1, 1 + 0.3 * log(1 + excess / maxExcess)), which is 1
calculateBrightness(current) ==
    IF RLe(current, MIN_CONDUCTION_CURRENT) THEN RZero
    ELSE IF RLe(current, m_forwardCurrent) THEN RDiv(current, m_forwardCurrent)
    ELSE Rat(1)

\* LED::calculateDynamicResistance: 25 ohms in series with Vf / I
calculateDynamicResistance(current) ==
    IF RLe(current, MIN_CONDUCTION_CURRENT) THEN OFF_RESISTANCE
    ELSE RAdd(Rat(25), RDiv(m_forwardVoltage, current))

\* LED::calculateElectricalState for the LED object l with m_voltage and
\* m_current already stored
calculateElectricalState(l, voltage, current) ==
    LET forwardBiased == RLt(RZero, voltage) /\ RLt(RZero, current)
        aboveThreshold == RLe(m_forwardVoltage, RAbs(voltage))
        sufficientCurrent == RLt(MIN_CONDUCTION_CURRENT, RAbs(current))
    IN IF forwardBiased /\ aboveThreshold /\ sufficientCurrent
       THEN [l EXCEPT !.m_isOn = TRUE,
                      !.m_brightness = calculateBrightness(RAbs(current)),
                      !.m_dynamicResistance = calculateDynamicResistance(RAbs(current))]
       ELSE [l EXCEPT !.m_isOn = FALSE,
                      !.m_brightness = RZero,
                      !.m_dynamicResistance = OFF_RESISTANCE]

\* LED::checkOverloadCondition
LED_checkOverloadCondition(l, voltage, current) ==
    [l EXCEPT !.m_isOverloaded =
        \/ RLt(LED_m_maxCurrent, RAbs(current))
        \/ RLt(m_thermalLimit, RAbs(RMul(voltage, current)))]

\* LED::updateState after ElectricalComponent::updateState (ledStateChanged,
\* overloadDetected and componentChanged have no slot in the core)
LED_updateState(l, voltage, current) ==
    LED_checkOverloadCondition(calculateElectricalState(l, voltage, current),
                               voltage, current)

\* ElectricalComponent::getResistance and its overrides
getResistance(c, g, ps) ==
    IF c \in Pins THEN ArduinoPin_getResistance(ps[c])
    ELSE IF c \in PowerPins THEN <<1, 100>>
    ELSE IF c \in Wires THEN IDEAL_RESISTANCE
    ELSE IF c \in Leds THEN g.m_led[c].m_dynamicResistance
    ELSE m_resistance

\* ArduinoPowerPin::m_fixedVoltage of the GROUND pin
m_fixedVoltage == RZero

\* getVoltage / getCurrent; ArduinoPin overrides both.  A power pin is an
\* OUTPUT pin whose m_outputVoltage is m_fixedVoltage and whose
\* m_outputCurrent is the current of its last updateState: both are kept in
\* m_state
getVoltage(c, g, ps) ==
    IF c \in Pins THEN ps[c].m_outputVoltage ELSE g.m_state[c].m_voltage

getCurrent(c, g, ps) ==
    IF c \in Pins THEN ps[c].m_outputCurrent ELSE g.m_state[c].m_current

\* the loop of CircuitSimulator::assignNodeIds over the node list
RECURSIVE assignFrom(_, _, _, _, _)
assignFrom(idx, nodes, k, nextIndex, groundNode) ==
    IF k > Len(nodes) THEN idx
    ELSE IF nodes[k] # groundNode
    THEN assignFrom([idx EXCEPT ![nodes[k]] = nextIndex], nodes, k + 1,
                    nextIndex + 1, groundNode)
    ELSE assignFrom(idx, nodes, k + 1, nextIndex, groundNode)

\* CircuitSimulator::assignNodeIds: the map m_nodeIndices, -1 for "no entry"
assignNodeIds(g) ==
    LET empty == [n \in NodeIds |-> -1]
        idx0 == IF g.m_groundNode # Null
                THEN [empty EXCEPT ![g.m_groundNode] = 0] ELSE empty
    IN assignFrom(idx0, g.m_nodes, 1, IF g.m_groundNode # Null THEN 1 ELSE 0,
                  g.m_groundNode)

\* CircuitSimulator::getNodeCount
getNodeCount(idx) == Cardinality({n \in NodeIds : idx[n] >= 0})

\* CircuitSimulator::initialize
initialize(s, g, ps) ==
    LET idx == assignNodeIds(g)
        s1 == [s EXCEPT !.m_nodeIndices = idx,
                        !.m_prevValues = [c \in Comps |-> <<>>]]
    IN IF getNodeCount(idx) <= 0 THEN s1
       ELSE [s1 EXCEPT
               !.m_matrixSolver = clear(getNodeCount(idx)),
               !.m_prevValues = [c \in Comps |->
                    IF contains(g.m_components, c)
                    THEN <<getVoltage(c, g, ps), getCurrent(c, g, ps)>> ELSE <<>>],
               !.m_initialized = TRUE,
               !.m_iterationCount = 0,
               !.m_simulationTime = 0]

\* one round of the loop of CircuitSimulator::buildMatrices: component c is
\* stamped into the matrix m
stamp(m, s, g, ps, c) ==
    LET resistance == getResistance(c, g, ps)
        conductance == IF resistance[1] <= 0 THEN Rat(1000000)
                       ELSE RDiv(Rat(1), resistance)
        node1 == getNode(g, c, 0)
        node2 == getNode(g, c, 1)
    IN IF getTerminalCount(c) = 1
       THEN IF node1 = Null \/ s.m_nodeIndices[node1] < 0 THEN m
            ELSE IF c \in Pins /\ isOutput(ps[c])
                      /\ RLt(OutputThreshold, ps[c].m_outputVoltage)
            THEN addVoltageSource(m, s.m_nodeIndices[node1], -1, ps[c].m_outputVoltage)
            ELSE addConductance(m, s.m_nodeIndices[node1], -1, conductance)
       ELSE IF node1 = Null \/ node2 = Null THEN m
            ELSE IF s.m_nodeIndices[node1] < 0 \/ s.m_nodeIndices[node2] < 0 THEN m
            ELSE addConductance(m, s.m_nodeIndices[node1], s.m_nodeIndices[node2],
                                conductance)

\* the objects that buildMatrices dereferences for component c: the component
\* and the nodes its terminals point to
stampTouchesFreed(g, c) ==
    \/ g.compMem[c] = "free"
    \/ IF getTerminalCount(c) = 1
       THEN getNode(g, c, 0) # Null /\ g.nodeMem[getNode(g, c, 0)] = "free"
       ELSE /\ getNode(g, c, 0) # Null /\ getNode(g, c, 1) # Null
            /\ \/ g.nodeMem[getNode(g, c, 0)] = "free"
               \/ g.nodeMem[getNode(g, c, 1)] = "free"

\* CircuitSimulator::buildMatrices
RECURSIVE stampFrom(_, _, _, _, _)
stampFrom(m, s, g, ps, k) ==
    IF k > Len(g.m_components) THEN m
    ELSE stampFrom(stamp(m, s, g, ps, g.m_components[k]), s, g, ps, k + 1)

buildMatrices(s, g, ps) == stampFrom(clear(s.m_matrixSolver.dim), s, g, ps, 1)

\* one round of the loop of CircuitSimulator::updateComponentStates: the
\* voltage across component c and the current through it are written back
writeBack(st, c) ==
    LET s == st.s
        g == st.g
        node1 == getNode(g, c, 0)
        node2 == getNode(g, c, 1)
        x == s.m_matrixSolver.x
        skip == IF getTerminalCount(c) = 1
                THEN node1 = Null \/ s.m_nodeIndices[node1] < 0
                ELSE \/ node1 = Null \/ node2 = Null
                     \/ s.m_nodeIndices[node1] < 0 \/ s.m_nodeIndices[node2] < 0
        voltage == IF getTerminalCount(c) = 1
                   THEN x[s.m_nodeIndices[node1]]
                   ELSE RSub(x[s.m_nodeIndices[node1]], x[s.m_nodeIndices[node2]])
        current == RDiv(voltage, getResistance(c, st.g, st.ps))
    IN IF skip THEN st
       ELSE [st EXCEPT
               !.g = [@ EXCEPT !.m_state[c] =
                                   [m_voltage |-> IF c \in PowerPins
                                                  THEN m_fixedVoltage ELSE voltage,
                                    m_current |-> current],
                               !.m_led = [l \in Leds |->
                                   IF l = c THEN LED_updateState(@[l], voltage, current)
                                   ELSE @[l]]],
               !.ps = IF c \in Pins
                      THEN [@ EXCEPT ![c] = ArduinoPin_updateState(@,
                                               g.m_state[c].m_voltage,
                                               g.m_state[c].m_current,
                                               voltage, current)]
                      ELSE @]

\* CircuitSimulator::updateComponentStates
RECURSIVE updateComponentStates(_, _)
updateComponentStates(st, k) ==
    IF k > Len(st.g.m_components) THEN st
    ELSE updateComponentStates(writeBack(st, st.g.m_components[k]), k + 1)

\* CircuitSimulator::hasConverged from component k on: the first component
\* without a previous value, or with a change above the tolerance, ends the
\* pass with "not converged"
RECURSIVE checkFrom(_, _, _, _)
checkFrom(prev, g, ps, k) ==
    IF k > Len(g.m_components) THEN [prev |-> prev, converged |-> TRUE]
    ELSE LET c == g.m_components[k]
             now2 == <<getVoltage(c, g, ps), getCurrent(c, g, ps)>>
         IN IF prev[c] = <<>>
            THEN [prev |-> [prev EXCEPT ![c] = now2], converged |-> FALSE]
            ELSE IF \/ RLt(m_convergenceTolerance, RAbs(RSub(now2[1], prev[c][1])))
                    \/ RLt(m_convergenceTolerance, RAbs(RSub(now2[2], prev[c][2])))
            THEN [prev |-> [prev EXCEPT ![c] = now2], converged |-> FALSE]
            ELSE checkFrom([prev EXCEPT ![c] = now2], g, ps, k + 1)

hasConverged(prev, g, ps) ==
    IF \A c \in Comps : prev[c] = <<>>
    THEN [prev |-> prev, converged |-> FALSE]
    ELSE checkFrom(prev, g, ps, 1)

\* the iteration of CircuitSimulator::solve; st holds the simulator, the
\* circuit and the pins, and the outcome of the solve
Signal(name, n) == [sig |-> name, n |-> n]

\* a variant of the end of solve() that reports the completed step only after
\* convergence
finish_stepOnlyWhenConverged(st, converged) ==
    [st EXCEPT !.s.m_lastSolve = IF converged THEN "converged" ELSE "notConverged",
               !.s.m_simulationTime = @ + 1,
               !.s.signals =
                   IF converged
                   THEN <<Signal("convergenceAchieved", 0),
                          Signal("simulationStepCompleted", st.s.m_iterationCount)>>
                   ELSE <<Signal("convergenceFailed", st.s.m_iterationCount)>>]

\* the end of solve(): convergenceAchieved or convergenceFailed(iterations),
\* m_simulationTime += m_timeStep, then simulationStepCompleted(iterations, time)
finish(st, converged) ==
    [st EXCEPT !.s.m_lastSolve = IF converged THEN "converged" ELSE "notConverged",
               !.s.m_simulationTime = @ + 1,
               !.s.signals =
                   <<IF converged THEN Signal("convergenceAchieved", 0)
                     ELSE Signal("convergenceFailed", st.s.m_iterationCount),
                     Signal("simulationStepCompleted", st.s.m_iterationCount)>>]

\* a variant of the failure branch that resets every component to (0, 0)
solverFailed_resetStates(st, m) ==
    [st EXCEPT !.s.m_matrixSolver = m, !.s.m_lastSolve = "error",
               !.s.signals = <<Signal("simulationError", 0)>>,
               !.g.m_state = [c \in DOMAIN @ |-> [m_voltage |-> RZero, m_current |-> RZero]]]

\* the failure branch of the iteration: MatrixSolver::solve returned false,
\* solve() emits simulationError and returns false
solverFailed(st, m) ==
    [st EXCEPT !.s.m_matrixSolver = m, !.s.m_lastSolve = "error",
               !.s.signals = <<Signal("simulationError", 0)>>]

RECURSIVE iterate(_)
iterate(st) ==
    IF st.s.m_iterationCount >= st.s.m_maxIterations
    THEN finish(st, FALSE)
    ELSE IF \E k \in 1..Len(st.g.m_components) : stampTouchesFreed(st.g, st.g.m_components[k])
    THEN [st EXCEPT !.ub = TRUE]
    ELSE LET r == MatrixSolver_solve(buildMatrices(st.s, st.g, st.ps))
         IN IF ~r.ok
            THEN solverFailed(st, r.m)
            ELSE LET st1 == updateComponentStates(
                               [st EXCEPT !.s.m_matrixSolver = r.m], 1)
                     h == hasConverged(st1.s.m_prevValues, st1.g, st1.ps)
                     st2 == [st1 EXCEPT !.s.m_prevValues = h.prev,
                                        !.s.m_iterationCount = @ + 1]
                 IN IF h.converged
                    THEN finish(st2, TRUE)
                    ELSE iterate(st2)

\* the body of CircuitSimulator::solve after the initialisation check
solveBody(s, g, ps) ==
    iterate([s |-> [s EXCEPT !.m_iterationCount = 0, !.signals = <<>>],
             g |-> g, ps |-> ps, ub |-> FALSE])

\* entry of CircuitSimulator::solve: a new activation of solve() is on the
\* stack; an uninitialised simulator is initialised first
solveBegin(s, caller, g, ps) ==
    [(IF s.m_initialized THEN s ELSE initialize(s, g, ps))
        EXCEPT !.frames = Append(@, caller)]

\* a variant of doUpdate that solves whether or not the simulator is running
doUpdate_solveAlways(s, t, g, ps) ==
    IF s.locked
    THEN [s EXCEPT !.deadlocked = TRUE]
    ELSE solveBegin([s EXCEPT !.locked = TRUE,
                              !.m_isUpdating = TRUE,
                              !.m_updatePending = FALSE,
                              !.m_lastUpdateTime = t],
                    "doUpdate", g, ps)

\* CircuitSimulator::doUpdate up to the call of solve(); without a solve it
\* runs to its end.  The QMutex is not recursive: locking it twice blocks.
doUpdate(s, t, g, ps) ==
    IF s.locked
    THEN [s EXCEPT !.deadlocked = TRUE]
    ELSE LET s1 == [s EXCEPT !.locked = TRUE,
                             !.m_isUpdating = TRUE,
                             !.m_updatePending = FALSE,
                             !.m_lastUpdateTime = t]
         IN IF s1.m_running
            THEN solveBegin(s1, "doUpdate", g, ps)
            ELSE [s1 EXCEPT !.m_isUpdating = FALSE, !.locked = FALSE]

\* CircuitSimulator::triggerUpdate
triggerUpdate(s, t, g, ps) ==
    IF s.m_isUpdating THEN s
    ELSE IF elapsed(s, t) < MinInterval
    THEN IF ~s.m_updatePending
         THEN [s EXCEPT !.timerActive = TRUE,
                        !.timerDeadline = t + Max(1, MinInterval - elapsed(s, t)),
                        !.m_updatePending = TRUE]
         ELSE s
    ELSE doUpdate(s, t, g, ps)

\* CircuitSimulator::onCircuitChanged
onCircuitChanged(s, t, g, ps) ==
    LET s1 == [s EXCEPT !.m_initialized = FALSE]
    IN IF s1.m_running THEN triggerUpdate(s1, t, g, ps) ELSE s1

\* k emissions of Circuit::circuitChanged
RECURSIVE deliverChanged(_, _, _, _, _)
deliverChanged(s, t, k, g, ps) ==
    IF k = 0 THEN s
    ELSE deliverChanged(onCircuitChanged(s, t, g, ps), t, k - 1, g, ps)

\* CircuitSimulator::start
start(s, t, g, ps) ==
    IF s.m_running THEN s
    ELSE LET s1 == IF s.m_initialized THEN s ELSE initialize(s, g, ps)
         IN triggerUpdate([s1 EXCEPT !.m_running = TRUE], t, g, ps)

\* CircuitSimulator::setMaxIterations
setMaxIterations(s, iterations) == [s EXCEPT !.m_maxIterations = iterations]

\* CircuitSimulator::stop
stop(s) ==
    IF ~s.m_running THEN s
    ELSE [s EXCEPT !.m_running = FALSE,
                   !.timerActive = FALSE,
                   !.m_updatePending = FALSE]

\* CircuitSimulator::step up to the call of solve()
step(s, g, ps) ==
    LET s1 == IF ~s.m_running /\ ~s.m_initialized THEN initialize(s, g, ps) ELSE s
    IN solveBegin(s1, "step", g, ps)

\* ArduinoPin::reset
ArduinoPin_reset(p) ==
    emit([p EXCEPT !.m_outputVoltage = Rat(0),
                   !.m_inputVoltage = Rat(0),
                   !.m_outputCurrent = Rat(0),
                   !.m_setValue = Rat(0),
                   !.m_isOverloaded = FALSE],
         "pinValueChanged")

\* CircuitSimulator::reset: the QMutexLocker blocks when the mutex is held;
\* every component of the circuit is reset (ElectricalComponent::reset,
\* LED::reset, ArduinoPin::reset), then the simulation state
reset(s, g, ps) ==
    IF s.locked
    THEN [s |-> [s EXCEPT !.deadlocked = TRUE], g |-> g, ps |-> ps, ub |-> FALSE]
    ELSE IF \E k \in 1..Len(g.m_components) : g.compMem[g.m_components[k]] = "free"
    THEN [s |-> s, g |-> g, ps |-> ps, ub |-> TRUE]
    ELSE [s |-> [s EXCEPT !.m_initialized = FALSE,
                          !.m_iterationCount = 0,
                          !.m_simulationTime = 0],
          g |-> [g EXCEPT
                   !.m_state = [c \in Comps |->
                       IF contains(g.m_components, c)
                       THEN [m_voltage |-> RZero, m_current |-> RZero] ELSE @[c]],
                   !.m_led = [l \in Leds |->
                       IF contains(g.m_components, l)
                       THEN [m_isOn |-> FALSE, m_brightness |-> RZero,
                             m_dynamicResistance |-> OFF_RESISTANCE,
                             m_isOverloaded |-> FALSE]
                       ELSE @[l]]],
          ps |-> [p \in Pins |->
                     IF contains(g.m_components, p) THEN ArduinoPin_reset(ps[p]) ELSE ps[p]],
          ub |-> FALSE]

\* return of the innermost solve() and of the doUpdate() that called it
solveReturn(s) ==
    LET caller == s.frames[Len(s.frames)]
        s1 == [s EXCEPT !.frames = SubSeq(@, 1, Len(@) - 1)]
    IN IF caller = "doUpdate"
       THEN [s1 EXCEPT !.m_isUpdating = FALSE, !.locked = FALSE]
       ELSE s1

\* CircuitSimulator::CircuitSimulator
InitSim ==
    sim = [m_running |-> FALSE,
           m_initialized |-> FALSE,
           m_isUpdating |-> FALSE,
           m_updatePending |-> FALSE,
           m_lastUpdateTime |-> 0,
           m_iterationCount |-> 0,
           \* the simulated time, counted in time steps (m_simulationTime / m_timeStep)
           m_simulationTime |-> 0,
           m_maxIterations |-> m_maxIterations,
           signals |-> <<>>,
           m_nodeIndices |-> [n \in NodeIds |-> -1],
           m_prevValues |-> [c \in Comps |-> <<>>],
           m_matrixSolver |-> clear(0),
           m_lastSolve |-> "none",
           timerActive |-> FALSE,
           timerDeadline |-> 0,
           frames |-> <<>>,
           locked |-> FALSE,
           deadlocked |-> FALSE]

\* --------------------------------------------------------------- history
\* what the step from simulator state s to s2 at time t adds to the history.
\* call: the step is a trigger_update call or a circuit-changed notification;
\* mutated: the step changed a pin or the topology.
\* A burst is opened by the first notification that arrives, with the simulator
\* running, outside the window of the previous burst; its window lasts
\* MinInterval.  burstSolves counts the solves that the notifications of the
\* burst produced: the immediate ones, and the expiries of a timer that one of
\* them armed.
Observe(o, s, s2, t, call, mutated) ==
    LET started == Len(s2.frames) > Len(s.frames)
        scheduled == started /\ s2.frames[Len(s2.frames)] = "doUpdate"
        counts == call /\ s2.m_running
        inBurst == o.burstStart >= 0 /\ t - o.burstStart < MinInterval
        newBurst == counts /\ ~inBurst
        armed == counts /\ s2.timerActive /\ s2.m_updatePending /\ ~s.m_updatePending
        fired == ~call /\ s.timerActive /\ ~s2.timerActive /\ scheduled
    IN [lastSolveAt |-> IF scheduled THEN t ELSE o.lastSolveAt,
        tooClose |-> o.tooClose \/ (scheduled /\ o.lastSolveAt >= 0
                                     /\ t - o.lastSolveAt < MinInterval),
        burstStart |-> IF ~s2.m_running THEN -1
                       ELSE IF newBurst THEN t ELSE o.burstStart,
        burstSolves |-> IF ~s2.m_running THEN 0
                        ELSE IF newBurst THEN (IF scheduled THEN 1 ELSE 0)
                        ELSE IF (counts /\ scheduled) \/ (fired /\ o.timerOfBurst)
                        THEN o.burstSolves + 1
                        ELSE o.burstSolves,
        timerOfBurst |-> IF ~s2.timerActive \/ ~s2.m_running THEN FALSE
                         ELSE IF armed THEN TRUE
                         ELSE IF newBurst THEN FALSE
                         ELSE o.timerOfBurst,
        stale |-> IF started THEN FALSE ELSE (mutated \/ o.stale),
        ret |-> o.ret,
        removals |-> o.removals]

InitObs ==
    obs = [lastSolveAt |-> -1, tooClose |-> FALSE,
           burstStart |-> -1, burstSolves |-> 0, timerOfBurst |-> FALSE,
           stale |-> FALSE,
           ret |-> "none",
           removals |-> [c \in Comps |-> 0]]

\* ------------------------------------------------------------------ Init
\* Circuit::Circuit: the ground node is created, flagged and named
\* (the model is symmetric in the node addresses: the first `new Node` returns 1)
NewCircuit(constructed) ==
    LET n0 == 1
    IN            [m_components |-> <<>>,
                   m_nodes |-> <<n0>>,
                   m_wires |-> <<>>,
                   m_groundNode |-> n0,
                   m_namedNodes |-> [nm \in Names |->
                                        IF nm \in {"GND", "GROUND"} THEN n0 ELSE Null],
                   m_externalComponents |-> {},
                   m_terminals |-> [c \in Comps |->
                                       [t \in 0..(getTerminalCount(c) - 1) |-> Null]],
                   m_connections |-> [n \in NodeIds |-> <<>>],
                   m_isGround |-> [n \in NodeIds |-> n = n0],
                   m_state |-> [c \in Comps |-> [m_voltage |-> RZero, m_current |-> RZero]],
                   m_led |-> [l \in Leds |-> [m_isOn |-> FALSE,
                                              m_brightness |-> RZero,
                                              m_dynamicResistance |-> OFF_RESISTANCE,
                                              m_isOverloaded |-> FALSE]],
                   node_voltage |-> [n \in NodeIds |-> 0],
                   nodeMem |-> [n \in NodeIds |-> IF n = n0 THEN "live" ELSE "free"],
                   compMem |-> [c \in Comps |->
                                   IF c \in constructed THEN "live" ELSE "free"],
                   ub |-> FALSE,
                   emitted |-> 0]

\* the caller has constructed the resistor and the board; wires are made by
\* addWire
InitCircuit == circuit = NewCircuit(Resistors \cup Pins)

Init ==
    /\ InitCircuit /\ InitPins /\ InitSim /\ InitObs
    /\ now = 0 /\ crashed = FALSE /\ calls = 0

\* ------------------------------------------------- the caller's arguments
\* components the external layer may still pass: constructed, not deleted
LiveComps == {c \in Comps : circuit.compMem[c] = "live"}

\* node pointers the caller can obtain: getNodes() and getGroundNode()
KnownNodes == Range(circuit.m_nodes) \cup ({circuit.m_groundNode} \ {Null})

Terminals == 0..1

\* the event loop is idle: no handler is running and nothing has gone wrong
Idle == ~crashed /\ ~sim.deadlocked /\ sim.frames = <<>>

\* a timer armed now expires within the modelled time span
InTime == now + MinInterval <= MaxTime

\* the value an editing call hands back to its caller
BoolRet(b) == IF b THEN "true" ELSE "false"

\* An editing call returns value r with circuit g; every circuitChanged it
\* emitted has been delivered to CircuitSimulator::onCircuitChanged (a direct
\* connection).  The history keeps r and counts, per component, the calls that
\* took it out of the component list.
ReturnValue(g, r) ==
    /\ calls < MaxCalls
    /\ InTime
    /\ calls' = calls + 1
    /\ IF g.ub
       THEN crashed' = TRUE /\ UNCHANGED <<circuit, sim, obs>>
       ELSE LET g2 == [g EXCEPT !.emitted = 0]
                s2 == deliverChanged(sim, now, g.emitted, g2, pins)
            IN /\ circuit' = g2
               /\ sim' = s2
               /\ obs' = [Observe(obs, sim, sim', now, g.emitted > 0, circuit' # circuit)
                            EXCEPT !.ret = r,
                                   !.removals = [c \in Comps |->
                                       IF contains(circuit.m_components, c)
                                          /\ ~contains(g2.m_components, c)
                                       THEN @[c] + 1 ELSE @[c]]]
               /\ crashed' = FALSE
    /\ UNCHANGED <<pins, now>>

\* return of a call without a result
Return(g) == ReturnValue(g, "void")

\* ------------------------------------------------ actions: circuit editing
AddComponent(c) ==
    /\ Idle
    /\ Return(addComponent(circuit, c))

RemoveComponent(c) ==
    /\ Idle
    /\ Return(removeComponentSafely(circuit, c))

ConnectComponents(c1, t1, c2, t2) ==
    /\ Idle
    /\ \E fresh \in (IF FreeNodeAddrs(circuit) = {} THEN {Null} ELSE FreeNodeAddrs(circuit)) :
          /\ (c1 # NullComp /\ c2 # NullComp
                /\ ValidTerminal(c1, t1) /\ ValidTerminal(c2, t2)
                /\ getNode(circuit, c1, t1) = Null /\ getNode(circuit, c2, t2) = Null)
             => fresh # Null
          /\ \E r \in {connectComponents(circuit, c1, t1, c2, t2, fresh)} :
                ReturnValue(r.g, BoolRet(r.ret))

ConnectComponentToNode(c, t, n) ==
    /\ Idle
    /\ \E r \in {connectComponentToNode(circuit, c, t, n)} :
          ReturnValue(r.g, BoolRet(r.ret))

DisconnectComponent(c, t) ==
    /\ Idle
    /\ Return(disconnectComponent(circuit, c, t))

AddWire(n1, n2) ==
    /\ Idle
    /\ IF n1 # Null /\ n2 # Null /\ n1 # n2 /\ ExistingWires(circuit, n1, n2) = {}
       THEN \E w \in {x \in Wires : circuit.compMem[x] = "free"} :
               \E r \in {addWire(circuit, n1, n2, w)} : ReturnValue(r.g, r.ret)
       ELSE \E r \in {addWire(circuit, n1, n2, NullComp)} : ReturnValue(r.g, r.ret)

SetGroundNode(n) ==
    /\ Idle
    /\ Return(setGroundNode(circuit, n))

RemoveAllComponents ==
    /\ Idle
    /\ Return(removeAllComponents(circuit))

ClearArduinoConnections(arduino) ==
    /\ Idle
    /\ Return(clearArduinoConnections(circuit, arduino))

ConnectArduinoPin(arduino, pinNumber, n) ==
    /\ Idle
    /\ \E r \in {connectArduinoPin(circuit, arduino, pinNumber, n)} :
          ReturnValue(r.g, BoolRet(r.ret))

DisconnectArduinoPin(arduino, pinNumber) ==
    /\ Idle
    /\ Return(disconnectArduinoPin(circuit, arduino, pinNumber))

CreateNode ==
    /\ Idle
    /\ \E fresh \in FreeNodeAddrs(circuit) : Return(createNode(circuit, fresh))

RemoveNode(n) ==
    /\ Idle
    /\ Return(removeNode(circuit, n))

\* a caller of findOrCreateNode(name); `new Node` returns any free address
FindOrCreateNode(name) ==
    /\ Idle
    /\ IF circuit.m_namedNodes[name] # Null
       THEN Return(findOrCreateNode(circuit, name, Null).g)
       ELSE \E fresh \in FreeNodeAddrs(circuit) :
               Return(findOrCreateNode(circuit, name, fresh).g)

\* the event loop delivers the DeferredDelete events: the objects are freed
ProcessDeferredDeletes ==
    /\ Idle
    /\ calls < MaxCalls
    /\ calls' = calls + 1
    /\ \/ \E n \in NodeIds : circuit.nodeMem[n] = "pending"
       \/ \E c \in Comps : circuit.compMem[c] = "pending"
    /\ circuit' = [circuit EXCEPT
          !.nodeMem = [n \in NodeIds |-> IF @[n] = "pending" THEN "free" ELSE @[n]],
          !.compMem = [c \in Comps |-> IF @[c] = "pending" THEN "free" ELSE @[c]],
          \* the contents of freed memory are never read again: forget them
          !.m_connections = [n \in NodeIds |->
              IF circuit.nodeMem[n] = "pending" THEN <<>> ELSE @[n]],
          !.m_isGround = [n \in NodeIds |->
              IF circuit.nodeMem[n] = "pending" THEN FALSE ELSE @[n]],
          !.node_voltage = [n \in NodeIds |->
              IF circuit.nodeMem[n] = "pending" THEN 0 ELSE @[n]],
          !.m_terminals = [c \in Comps |->
              IF circuit.compMem[c] = "pending"
              THEN [t \in 0..(getTerminalCount(c) - 1) |-> Null] ELSE @[c]]]
    /\ UNCHANGED <<pins, sim, now, obs, crashed>>

\* --------------------------------------------- actions: pins (the sketch)
\* pinValueChanged, pinModeChanged and componentChanged are emitted; the core
\* connects none of them to the circuit or to the simulator
DigitalWrite(p, value) ==
    /\ Idle
    /\ pins' = [pins EXCEPT ![p] = delivered(digitalWrite(@, value))]
    /\ obs' = Observe(obs, sim, sim, now, FALSE, pins' # pins)
    /\ UNCHANGED <<circuit, sim, now, crashed, calls>>

SetMode(p, mode) ==
    /\ Idle
    /\ pins' = [pins EXCEPT ![p] = delivered(setMode(@, mode))]
    /\ obs' = Observe(obs, sim, sim, now, FALSE, pins' # pins)
    /\ UNCHANGED <<circuit, sim, now, crashed, calls>>

AnalogWrite(p, value) ==
    /\ Idle
    /\ pins' = [pins EXCEPT ![p] = delivered(analogWrite(@, value))]
    /\ obs' = Observe(obs, sim, sim, now, FALSE, pins' # pins)
    /\ UNCHANGED <<circuit, sim, now, crashed, calls>>

\* m_pwmTimer of pin p times out
PwmTimeout(p) ==
    /\ Idle
    /\ pins[p].pwmTimerActive
    /\ pins' = [pins EXCEPT ![p] = delivered(updatePWMOutput(@))]
    /\ obs' = Observe(obs, sim, sim, now, FALSE, pins' # pins)
    /\ UNCHANGED <<circuit, sim, now, crashed, calls>>

\* ------------------------------------------------- actions: the simulator
SimStep(s2, call) ==
    /\ sim' = s2
    /\ obs' = Observe(obs, sim, sim', now, call, FALSE)
    /\ UNCHANGED <<circuit, pins, now, crashed, calls>>

Start == Idle /\ InTime /\ SimStep(start(sim, now, circuit, pins), FALSE)

Stop == Idle /\ SimStep(stop(sim), FALSE)

SetMaxIterations(n) == Idle /\ SimStep(setMaxIterations(sim, n), FALSE)

Step == Idle /\ SimStep(step(sim, circuit, pins), FALSE)

TriggerUpdate == Idle /\ InTime /\ SimStep(triggerUpdate(sim, now, circuit, pins), TRUE)

\* m_updateTimer times out: the event loop calls doUpdate, never before the deadline
TimerFire ==
    /\ Idle
    /\ sim.timerActive
    /\ now >= sim.timerDeadline
    /\ SimStep(doUpdate([sim EXCEPT !.timerActive = FALSE], now, circuit, pins), FALSE)

\* a slot connected to a signal that solve() emits calls back into the simulator
HandlerTriggerUpdate ==
    /\ ~crashed /\ ~sim.deadlocked
    /\ sim.frames # <<>>
    /\ InTime
    /\ SimStep(triggerUpdate(sim, now, circuit, pins), TRUE)

HandlerCircuitChanged ==
    /\ ~crashed /\ ~sim.deadlocked
    /\ sim.frames # <<>>
    /\ InTime
    /\ SimStep(onCircuitChanged(sim, now, circuit, pins), TRUE)

\* reset() with the outcome r of CircuitSimulator::reset
ResetReturn(r) ==
    IF r.ub
    THEN crashed' = TRUE /\ UNCHANGED <<circuit, pins, sim, obs, now, calls>>
    ELSE /\ circuit' = r.g
         /\ pins' = [p \in Pins |-> delivered(r.ps[p])]
         /\ sim' = r.s
         /\ obs' = Observe(obs, sim, sim', now, FALSE, pins' # pins)
         /\ UNCHANGED <<now, crashed, calls>>

\* the user resets the simulation
Reset == Idle /\ \E r \in {reset(sim, circuit, pins)} : ResetReturn(r)

\* a slot connected to a signal that solve() emits calls reset()
HandlerReset ==
    /\ ~crashed /\ ~sim.deadlocked
    /\ sim.frames # <<>>
    /\ \E r \in {reset(sim, circuit, pins)} : ResetReturn(r)

\* the innermost solve() runs to its end
SolveReturn ==
    /\ ~crashed /\ ~sim.deadlocked
    /\ sim.frames # <<>>
    /\ sim.m_simulationTime < MaxSimTime
    /\ \E r \in {solveBody(sim, circuit, pins)} :
          IF r.ub
          THEN crashed' = TRUE /\ UNCHANGED <<circuit, pins, sim, obs>>
          ELSE /\ circuit' = r.g
               /\ pins' = [p \in Pins |-> delivered(r.ps[p])]
               /\ sim' = solveReturn(r.s)
               /\ obs' = Observe(obs, sim, sim', now, FALSE, FALSE)
               /\ crashed' = FALSE
    /\ UNCHANGED <<now, calls>>

\* a millisecond passes
Tick ==
    /\ now < MaxTime
    /\ now' = now + 1
    /\ UNCHANGED <<circuit, pins, sim, obs, crashed, calls>>

\* -------------------------------------------------------- specifications
\* the editing surface of the Circuit, with a simulator that is not started
Next ==
    \/ \E c \in LiveComps : AddComponent(c)
    \/ \E c \in LiveComps : RemoveComponent(c)
    \/ \E c1, c2 \in LiveComps, t1, t2 \in Terminals : ConnectComponents(c1, t1, c2, t2)
    \/ \E c \in LiveComps, t \in Terminals, n \in KnownNodes : ConnectComponentToNode(c, t, n)
    \/ \E c \in LiveComps, t \in Terminals : DisconnectComponent(c, t)
    \/ \E n1, n2 \in KnownNodes : AddWire(n1, n2)
    \/ \E n \in KnownNodes : SetGroundNode(n)
    \/ CreateNode
    \/ \E n \in KnownNodes : RemoveNode(n)
    \/ ProcessDeferredDeletes

Spec == Init /\ [][Next]_vars

\* the circuit edited through its named nodes
NameNext ==
    \/ \E name \in Names : FindOrCreateNode(name)
    \/ \E c1, c2 \in LiveComps, t1, t2 \in Terminals : ConnectComponents(c1, t1, c2, t2)
    \/ \E c \in LiveComps, t \in Terminals, n \in KnownNodes : ConnectComponentToNode(c, t, n)
    \/ \E c \in LiveComps, t \in Terminals : DisconnectComponent(c, t)
    \/ \E n \in KnownNodes : SetGroundNode(n)
    \/ \E n \in KnownNodes : RemoveNode(n)
    \/ ProcessDeferredDeletes

NameSpec == Init /\ [][NameNext]_vars

\* the scheduler: the simulator is driven by the user, the timer, the sketch
\* and by edits of one pin of the board
SchedNext ==
    \/ Start
    \/ Stop
    \/ Step
    \/ TriggerUpdate
    \/ TimerFire
    \/ HandlerTriggerUpdate
    \/ HandlerCircuitChanged
    \/ SolveReturn
    \/ Tick
    \/ \E p \in Pins \ Range(circuit.m_components) : AddComponent(p)
    \/ \E p \in Pins \cap Range(circuit.m_components) : RemoveComponent(p)
    \/ \E p \in Pins : getNode(circuit, p, 0) = Null
                        /\ ConnectComponentToNode(p, 0, circuit.m_groundNode)
    \/ \E p \in Pins : DigitalWrite(p, TRUE)
    \/ \E p \in Pins : SetMode(p, "OUTPUT")

SchedSpec == Init /\ [][SchedNext]_vars

\* the electrical pass: a resistor and a pin are added and wired, the sketch
\* drives the pin, and the user single-steps the simulator (no slot is
\* connected to the signals of the solve)
ElecComps == Resistors \cup Pins

ElecNext ==
    \/ \E c \in ElecComps \cap LiveComps : AddComponent(c)
    \/ \E c \in ElecComps \cap LiveComps : RemoveComponent(c)
    \/ \E p \in Pins \cap LiveComps, r \in Resistors \cap LiveComps, t \in Terminals :
          ConnectComponents(p, 0, r, t)
    \/ \E c \in ElecComps \cap LiveComps, t \in Terminals :
          ConnectComponentToNode(c, t, circuit.m_groundNode)
    \/ \E p \in Pins, mode \in {"INPUT", "OUTPUT"} : SetMode(p, mode)
    \/ \E p \in Pins, v \in BOOLEAN : DigitalWrite(p, v)
    \/ Step
    \/ SolveReturn

ElecSpec == Init /\ [][ElecNext]_vars

\* the solve of a circuit that has lost its ground: components are added and
\* bound to the ground node, the ground node is removed with removeNode, the
\* event loop may free it, and the user single-steps the simulator
GroundNext ==
    \/ \E c \in (ElecComps \cap LiveComps) \ Range(circuit.m_components) : AddComponent(c)
    \/ \E c \in ElecComps \cap LiveComps, t \in Terminals :
          ConnectComponentToNode(c, t, circuit.m_groundNode)
    \/ \E p \in Pins, r \in Resistors \cap LiveComps : ConnectComponents(p, 0, r, 0)
    \/ RemoveNode(circuit.m_groundNode)
    \/ ProcessDeferredDeletes
    \/ \E p \in Pins : SetMode(p, "OUTPUT")
    \/ \E p \in Pins : DigitalWrite(p, TRUE)
    \/ Step
    \/ SolveReturn

GroundSpec == Init /\ [][GroundNext]_vars

\* the pin subsystem: the pin object of the model stands for digital pin 2, 3
\* or 13 of an Uno, a Nano or a Mega; the sketch sets its mode and writes to it,
\* and its PWM timer runs
BoardPinNumbers == {2, 3, 13}
Duties == {-1, 0, 128, 255, 256}

PinInit ==
    /\ InitCircuit /\ InitSim /\ InitObs
    /\ now = 0 /\ crashed = FALSE /\ calls = 0
    /\ \E board \in BoardTypes :
       \E n \in {k \in BoardPinNumbers : k < boardDigitalPinCount(board)} :
          pins = [p \in Pins |-> DigitalPin(n, board)]

PinNext ==
    \/ \E p \in Pins, mode \in PinModes : SetMode(p, mode)
    \/ \E p \in Pins, v \in BOOLEAN : DigitalWrite(p, v)
    \/ \E p \in Pins, duty \in Duties : AnalogWrite(p, duty)
    \/ \E p \in Pins : PwmTimeout(p)

PinSpec == PinInit /\ [][PinNext]_vars

\* a pin that drives a load: pin 13 of the Uno and a resistor are added, the
\* pin is wired through the resistor to ground, the sketch sets the pin's mode
\* and writes to it, and the user single-steps the simulator
DriveNext ==
    \/ \E c \in (Pins \cup {"r1"}) \ Range(circuit.m_components) : AddComponent(c)
    \/ \E p \in Pins : ConnectComponents(p, 0, "r1", 0)
    \/ ConnectComponentToNode("r1", 1, circuit.m_groundNode)
    \/ \E p \in Pins, mode \in PinModes : SetMode(p, mode)
    \/ \E p \in Pins, v \in BOOLEAN : DigitalWrite(p, v)
    \/ Step
    \/ SolveReturn

DriveSpec == Init /\ [][DriveNext]_vars

\* a loaded pin: the board's ground pin is tied to the ground node, so that a
\* current flows from the pin through the resistor.  The pin, the resistor and
\* the ground pin have been added to the circuit, in any order, before the
\* simulator is attached, and the sketch has made the pin an OUTPUT; the user
\* wires them, the sketch writes the pin, the user sets the iteration cap and
\* single-steps the simulator
LoadIterationCaps == {1, 2}

LoadInit ==
    /\ \E a, b, c \in Resistors \cup Pins \cup PowerPins :
          /\ Cardinality({a, b, c}) = 3
          /\ circuit = [addComponent(addComponent(addComponent(
                            NewCircuit(Resistors \cup Pins \cup PowerPins), a), b), c)
                          EXCEPT !.emitted = 0]
    /\ pins = [p \in Pins |-> delivered(setMode(DigitalPin(13, "UNO"), "OUTPUT"))]
    /\ InitSim /\ InitObs
    /\ now = 0 /\ crashed = FALSE /\ calls = 0

LoadNext ==
    \/ \E p \in Pins, r \in Resistors : ConnectComponents(p, 0, r, 0)
    \/ \E c \in Resistors \cup PowerPins :
          ConnectComponentToNode(c, getTerminalCount(c) - 1, circuit.m_groundNode)
    \/ \E p \in Pins, v \in BOOLEAN : DigitalWrite(p, v)
    \/ \E n \in LoadIterationCaps : SetMaxIterations(n)
    \/ Step
    \/ SolveReturn

LoadSpec == LoadInit /\ [][LoadNext]_vars

\* a running simulation: pin 13 drives the resistor to ground and the board's
\* ground pin is constructed; the user starts, stops, single-steps and resets
\* the simulator and adds or removes the ground pin, the timer fires, and the
\* slots connected to the signals of solve() call back into the simulator
RunInit ==
    /\ \E g0 \in {addComponent(addComponent(
                       NewCircuit(Resistors \cup Pins \cup PowerPins), "p13"), "r1")} :
       \E g1 \in {connectComponents(g0, "p13", 0, "r1", 0, 2).g} :
          circuit = [connectComponentToNode(g1, "r1", 1, g1.m_groundNode).g
                        EXCEPT !.emitted = 0]
    /\ pins = [p \in Pins |->
                 delivered(digitalWrite(setMode(DigitalPin(13, "UNO"), "OUTPUT"), TRUE))]
    /\ InitSim /\ InitObs
    /\ now = 0 /\ crashed = FALSE /\ calls = 0

RunNext ==
    \/ Reset
    \/ HandlerReset
    \/ Start
    \/ Stop
    \/ Step
    \/ TriggerUpdate
    \/ TimerFire
    \/ HandlerTriggerUpdate
    \/ HandlerCircuitChanged
    \/ SolveReturn
    \/ Tick
    \/ \E c \in PowerPins \ Range(circuit.m_components) : AddComponent(c)
    \/ \E c \in PowerPins \cap Range(circuit.m_components) : RemoveComponent(c)

RunSpec == RunInit /\ [][RunNext]_vars

\* a circuit with an LED: the caller has also constructed a red LED; the LED,
\* the pin and the resistor are added and wired, the sketch drives the pin and
\* the user single-steps the simulator
LedInit ==
    /\ circuit = NewCircuit(Resistors \cup Pins \cup Leds)
    /\ InitPins /\ InitSim /\ InitObs
    /\ now = 0 /\ crashed = FALSE /\ calls = 0

LedNext ==
    \/ \E c \in (Leds \cup Pins) \ Range(circuit.m_components) : AddComponent(c)
    \/ \E p \in Pins, l \in Leds : ConnectComponents(p, 0, l, 0)
    \/ \E l \in Leds : ConnectComponentToNode(l, 1, circuit.m_groundNode)
    \/ \E p \in Pins : ConnectComponentToNode(p, 0, circuit.m_groundNode)
    \/ \E l \in Leds, t \in Terminals : DisconnectComponent(l, t)
    \/ \E p \in Pins, mode \in {"INPUT", "OUTPUT"} : SetMode(p, mode)
    \/ \E p \in Pins, v \in BOOLEAN : DigitalWrite(p, v)
    \/ Step
    \/ SolveReturn

LedSpec == LedInit /\ [][LedNext]_vars

\* the editing surface as a careless caller uses it: null pointers, terminal
\* indices outside the component's range and pin numbers the board does not
\* have are passed along with valid arguments
ArgComps == Resistors \cup Pins \cup {NullComp}
ArgTerminals == -1..2
ArgNodes == KnownNodes \cup {Null}

ArgNext ==
    \/ \E c \in ArgComps : AddComponent(c)
    \/ \E c \in ArgComps : RemoveComponent(c)
    \/ \E c1 \in Pins \cup {NullComp}, c2 \in Resistors, t2 \in {-1, 0, 1} :
          ConnectComponents(c1, 0, c2, t2)
    \/ \E c \in Resistors \cup {NullComp}, t \in {1, 2}, n \in {circuit.m_groundNode, Null} :
          ConnectComponentToNode(c, t, n)
    \/ \E c \in ArgComps, t \in {0, 2} : DisconnectComponent(c, t)
    \/ \E n \in ArgNodes : AddWire(n, Null)
    \/ SetGroundNode(Null)
    \/ \E a \in BOOLEAN, num \in PinNumbers, n \in {circuit.m_groundNode, Null} :
          ConnectArduinoPin(a, num, n)
    \/ \E a \in BOOLEAN, num \in PinNumbers : DisconnectArduinoPin(a, num)

ArgSpec == Init /\ [][ArgNext]_vars

\* ownership: components and board pins are added, wired, removed one by one
\* or all at once, and added again; the event loop deletes what was scheduled
OwnNext ==
    \/ ClearArduinoConnections(TRUE)
    \/ RemoveAllComponents
    \/ \E c \in ElecComps \cap LiveComps : AddComponent(c)
    \/ \E c \in ElecComps \cap LiveComps : RemoveComponent(c)
    \/ ConnectArduinoPin(TRUE, 13, circuit.m_groundNode)
    \/ \E r \in Resistors \cap LiveComps : ConnectComponentToNode(r, 0, circuit.m_groundNode)
    \/ ProcessDeferredDeletes

OwnSpec == Init /\ [][OwnNext]_vars

\* the solve: a pin and a resistor are added and wired, nodes are created, the
\* sketch drives the pin, the user sets the iteration cap and single-steps the
\* simulator
IterationCaps == {-1, 0, 1}

SolveNext ==
    \/ \E c \in (ElecComps \cap LiveComps) \ Range(circuit.m_components) : AddComponent(c)
    \/ \E p \in Pins, r \in Resistors \cap LiveComps : ConnectComponents(p, 0, r, 0)
    \/ \E c \in ElecComps \cap LiveComps :
          ConnectComponentToNode(c, getTerminalCount(c) - 1, circuit.m_groundNode)
    \/ CreateNode
    \/ \E p \in Pins, mode \in {"INPUT", "OUTPUT"} : SetMode(p, mode)
    \/ \E p \in Pins : DigitalWrite(p, TRUE)
    \/ \E n \in IterationCaps : SetMaxIterations(n)
    \/ Step
    \/ SolveReturn

SolveSpec == Init /\ [][SolveNext]_vars

\* ------------------------------------------------------------ properties
\* number of occurrences of the pair <<c, t>> in the incidence list of node n
Incidences(g, n, c, t) ==
    Cardinality({i \in 1..Len(g.m_connections[n]) : g.m_connections[n][i] = <<c, t>>})

\* nodes whose memory has not been released
Allocated(g) == {n \in NodeIds : g.nodeMem[n] # "free"}

\* C1: bidirectional integrity.  In every quiescent state, for every component
\* c, terminal t and node n: c.node(t) = n if and only if the incidence list
\* of n contains the pair (c, t), and it contains that pair exactly once.
C1_BidirectionalIntegrity ==
    \A c \in Comps : \A t \in 0..(getTerminalCount(c) - 1) : \A n \in Allocated(circuit) :
        /\ (circuit.m_terminals[c][t] = n) <=> (Incidences(circuit, n, c, t) >= 1)
        /\ Incidences(circuit, n, c, t) <= 1

\* C6: the designated ground node exists and is a member of the node list in
\* every reachable state.
C6_GroundNodeExists ==
    /\ circuit.m_groundNode # Null
    /\ contains(circuit.m_nodes, circuit.m_groundNode)

\* the nodes of the circuit that carry the ground flag
GroundFlagged(g) == {n \in Range(g.m_nodes) : g.m_isGround[n]}

\* C7: at most one node of the circuit is flagged ground in every reachable
\* state; a set_ground(n) with n different from the current ground leaves n
\* flagged with voltage 0 and named GND and GROUND, leaves the old ground
\* unflagged, and removes the old ground from the node list if it has no
\* incidences.
C7_SingleGround ==
    /\ Cardinality(GroundFlagged(circuit)) <= 1
    /\ \A n \in Range(circuit.m_nodes) :
         circuit.m_isGround[n] =>
            /\ n = circuit.m_groundNode
            /\ circuit.node_voltage[n] = 0
            /\ circuit.m_namedNodes["GND"] = n
            /\ circuit.m_namedNodes["GROUND"] = n

\* C9: whenever connect(a, ta, b, tb) returns success, a.node(ta) and
\* b.node(tb) are the same non-null node.
C9_ConnectJoinsTerminals ==
    Idle =>
    \A c1, c2 \in LiveComps : \A t1, t2 \in Terminals :
    \A fresh \in (IF FreeNodeAddrs(circuit) = {} THEN {Null} ELSE FreeNodeAddrs(circuit)) :
        (/\ ValidTerminal(c1, t1) /\ ValidTerminal(c2, t2)
         /\ (getNode(circuit, c1, t1) = Null /\ getNode(circuit, c2, t2) = Null)
               => fresh # Null)
        => \E r \in {connectComponents(circuit, c1, t1, c2, t2, fresh)} :
              (r.ret /\ ~r.g.ub)
              => /\ getNode(r.g, c1, t1) # Null
                 /\ getNode(r.g, c1, t1) = getNode(r.g, c2, t2)

\* C10: after remove_component(c) returns, c is not in the component list and
\* no node of the circuit has c in its incidence list.
C10_RemoveLeavesNoIncidence ==
    [][\A c \in Comps :
         (RemoveComponent(c) /\ ~crashed')
         => /\ ~contains(circuit'.m_components, c)
            /\ \A n \in Range(circuit'.m_nodes) :
                 \A i \in 1..Len(circuit'.m_connections[n]) :
                    circuit'.m_connections[n][i][1] # c]_vars

\* C2: no solve re-enters a solve: at most one activation of solve() is in
\* progress at any time, however the running solve was started and whatever
\* the handlers of its signals call.
C2_NoNestedSolve == Len(sim.frames) <= 1

\* C3: with the simulator running, the notifications that arrive within one
\* min_interval window produce at most one immediate solve and at most one
\* further, deferred solve: at most two solves in all.
C3_BurstCoalesced == obs.burstSolves <= 2

\* C4: any two consecutive solves started through the scheduler (immediate
\* path or deferred timer) start at least min_interval apart.
C4_SolvesSpacedByMinInterval == ~obs.tooClose

\* C5: while the simulator is running, every external mutation (pin write,
\* pin mode change, topology edit) is followed by a fresh solve: as long as
\* no solve has started since the mutation, one is in progress or the
\* deferred timer is armed to start one.
C5_MutationFollowedBySolve ==
    (obs.stale /\ sim.m_running) => (sim.frames # <<>> \/ sim.timerActive)

\* C8: after every completed solve the voltage solved for the ground node,
\* matrix index 0, is exactly 0 V.
C8_GroundSolvedAtZero ==
    sim.m_lastSolve \in {"converged", "notConverged"}
        => sim.m_matrixSolver.x[0] = RZero

\* C11: every mutating Circuit operation that succeeds emits the circuit's
\* "changed" notification: a connect, connect_to_node, disconnect or
\* set_ground that changed the circuit, and an add_component, remove_component
\* or add_wire that changed the component list, has emitted circuitChanged at
\* least once before it returns.
C11_MutationEmitsChanged ==
    [][/\ \A c \in Comps : \A t \in Terminals : \A n \in NodeIds :
            (ConnectComponentToNode(c, t, n) /\ ~crashed' /\ circuit' # circuit)
            => connectComponentToNode(circuit, c, t, n).g.emitted > 0
       /\ \A c \in Comps : \A t \in Terminals :
            (DisconnectComponent(c, t) /\ ~crashed' /\ circuit' # circuit)
            => disconnectComponent(circuit, c, t).emitted > 0
       /\ \A n \in NodeIds :
            (SetGroundNode(n) /\ ~crashed' /\ circuit' # circuit)
            => setGroundNode(circuit, n).emitted > 0
       /\ \A c \in Comps :
            (AddComponent(c) /\ ~crashed' /\ circuit' # circuit)
            => addComponent(circuit, c).emitted > 0
       /\ \A c \in Comps :
            (RemoveComponent(c) /\ ~crashed'
               /\ circuit'.m_components # circuit.m_components)
            => removeComponentSafely(circuit, c).emitted > 0]_vars

\* the component list, the node list, every incidence list and every terminal
\* table of g are those of the circuit, and nothing undefined has happened
GraphUntouched(g) ==
    /\ g.m_components = circuit.m_components
    /\ g.m_nodes = circuit.m_nodes
    /\ g.m_connections = circuit.m_connections
    /\ g.m_terminals = circuit.m_terminals
    /\ ~g.ub

\* C12: a mutating editing call given a null component, a null node, an
\* out-of-range terminal index or an unknown pin number returns failure (false,
\* or no wire) and leaves the component list, the node list, every incidence
\* list and every terminal table unchanged: in every reachable state, each
\* such call made there returns with that result.
C12_BadArgumentsRejected ==
    /\ \A c1, c2 \in ArgComps : \A t1, t2 \in ArgTerminals : \A fresh \in NodeIds :
          (\/ c1 = NullComp \/ c2 = NullComp
           \/ ~ValidTerminal(c1, t1) \/ ~ValidTerminal(c2, t2))
          => \E r \in {connectComponents(circuit, c1, t1, c2, t2, fresh)} :
                ~r.ret /\ GraphUntouched(r.g)
    /\ \A c \in ArgComps : \A t \in ArgTerminals : \A n \in NodeIds \cup {Null} :
          (c = NullComp \/ n = Null \/ ~ValidTerminal(c, t))
          => \E r \in {connectComponentToNode(circuit, c, t, n)} :
                ~r.ret /\ GraphUntouched(r.g)
    /\ \A c \in ArgComps : \A t \in ArgTerminals :
          (c = NullComp \/ ~ValidTerminal(c, t))
          => GraphUntouched(disconnectComponent(circuit, c, t))
    /\ GraphUntouched(addComponent(circuit, NullComp))
    /\ GraphUntouched(removeComponentSafely(circuit, NullComp))
    /\ GraphUntouched(setGroundNode(circuit, Null))
    /\ \A n1, n2 \in NodeIds \cup {Null} :
          (n1 = Null \/ n2 = Null)
          => \E r \in {addWire(circuit, n1, n2, NullComp)} :
                r.ret = NullComp /\ GraphUntouched(r.g)
    /\ \A a \in BOOLEAN : \A num \in PinNumbers : \A n \in NodeIds \cup {Null} :
          (~a \/ n = Null \/ num < 0 \/ num >= m_digitalPinCount)
          => \E r \in {connectArduinoPin(circuit, a, num, n)} :
                ~r.ret /\ GraphUntouched(r.g)
    /\ \A a \in BOOLEAN : \A num \in PinNumbers :
          (~a \/ num < 0 \/ num >= m_digitalPinCount)
          => GraphUntouched(disconnectArduinoPin(circuit, a, num))

\* an editing call has just rejected its arguments in a circuit that holds
\* connected components
C12_Witness ==
    /\ obs.ret = "false"
    /\ circuit.m_components # <<>>
    /\ \E n \in Range(circuit.m_nodes) : circuit.m_connections[n] # <<>>

\* C13: remove_component(c) prunes empty nodes: after it returns, every
\* non-ground node that disconnecting c left without incidences is no longer
\* in the node list of the circuit.
C13_RemovePrunesEmptyNodes ==
    [][\A c \in Comps :
         (RemoveComponent(c) /\ ~crashed')
         => \A n \in Range(circuit.m_nodes) :
               (/\ n # circuit.m_groundNode
                /\ circuit.m_connections[n] # <<>>
                /\ circuit'.m_connections[n] = <<>>)
               => ~contains(circuit'.m_nodes, n)]_vars

\* C14: connect_to_node(c, t, n) replaces any previous binding of terminal t:
\* afterwards c.node(t) = n, the node bound at t before no longer lists (c, t),
\* and that old node has left the node list if it is now empty and not ground.
C14_ConnectToNodeReplacesBinding ==
    [][\A c \in Comps : \A t \in Terminals : \A n \in NodeIds :
         (/\ ConnectComponentToNode(c, t, n)
          /\ ~crashed'
          /\ ValidTerminal(c, t)
          /\ getNode(circuit, c, t) # Null
          /\ getNode(circuit, c, t) # n)
         => /\ getNode(circuit', c, t) = n
            /\ Incidences(circuit', getNode(circuit, c, t), c, t) = 0
            /\ (/\ circuit'.m_connections[getNode(circuit, c, t)] = <<>>
                /\ getNode(circuit, c, t) # circuit'.m_groundNode)
               => ~contains(circuit'.m_nodes, getNode(circuit, c, t))]_vars

\* C15: a pin of the board is never scheduled for deletion by remove_component,
\* remove_all_components or clear_arduino_connections, in any order of add,
\* remove and re-add; a component that is not externally owned is scheduled
\* for deletion exactly when a call takes it out of the component list.
C15_ExternalPinsNeverFreed ==
    /\ \A p \in Pins : circuit.compMem[p] = "live"
    /\ \A r \in Resistors : (circuit.compMem[r] = "live") <=> (obs.removals[r] = 0)

\* the pin has been added, removed, added again and removed again
C15_Witness ==
    /\ obs.removals["p13"] >= 2
    /\ ~contains(circuit.m_components, "p13")

\* C16: in every solve the first iteration of the fixed-point loop is never
\* judged converged: a solve that reports converged has run at least two
\* iterations.
C16_FirstIterationNotConverged ==
    sim.m_lastSolve = "converged" => sim.m_iterationCount >= 2

\* the circuit is purely linear and wired: it holds a resistor and a pin, every
\* pin of it is in OUTPUT mode and every terminal of its components is bound
LinearCircuit(g, ps) ==
    /\ \E k \in 1..Len(g.m_components) : g.m_components[k] \in Pins
    /\ \E k \in 1..Len(g.m_components) : g.m_components[k] \in Resistors
    /\ \A k \in 1..Len(g.m_components) :
          /\ g.m_components[k] \in Resistors \cup Pins
          /\ g.m_components[k] \in Pins => ps[g.m_components[k]].m_mode = "OUTPUT"
          /\ \A t \in 0..(getTerminalCount(g.m_components[k]) - 1) :
                g.m_terminals[g.m_components[k]][t] # Null

\* C17: for a purely linear circuit (resistors only, driven by pins in OUTPUT
\* mode) every solve reports converged with an iteration count of exactly one.
\* (Stated for the solves whose matrix is regular: a circuit that floats ends
\* in a solver error, which is not counted against the claim here.)
C17_LinearConvergesInOneIteration ==
    [][(/\ SolveReturn /\ ~crashed'
        /\ LinearCircuit(circuit, pins)
        /\ sim'.m_lastSolve # "error")
       => (sim'.m_lastSolve = "converged" /\ sim'.m_iterationCount = 1)]_vars

\* the (voltage, current) state of every component of the circuit is the one
\* that the solution x of the solver gives it
StatesOfSolution(g, ps, s) ==
    \A k \in 1..Len(g.m_components) :
        LET c == g.m_components[k]
            node1 == getNode(g, c, 0)
            node2 == getNode(g, c, 1)
            x == s.m_matrixSolver.x
        IN IF getTerminalCount(c) = 1
           THEN (node1 # Null /\ s.m_nodeIndices[node1] >= 0)
                => /\ g.m_state[c].m_voltage = x[s.m_nodeIndices[node1]]
                   /\ g.m_state[c].m_current =
                          RDiv(x[s.m_nodeIndices[node1]], getResistance(c, g, ps))
                   /\ (c \in Pins /\ isOutput(ps[c]))
                      => ps[c].m_outputCurrent = g.m_state[c].m_current
           ELSE (/\ node1 # Null /\ node2 # Null
                 /\ s.m_nodeIndices[node1] >= 0 /\ s.m_nodeIndices[node2] >= 0)
                => /\ g.m_state[c].m_voltage =
                          RSub(x[s.m_nodeIndices[node1]], x[s.m_nodeIndices[node2]])
                   /\ g.m_state[c].m_current =
                          RDiv(g.m_state[c].m_voltage, getResistance(c, g, ps))

\* C18: every solve ends after at most max_iterations iterations, whatever
\* max_iterations is set to; a solve that ends without solver error has emitted
\* exactly one of convergenceAchieved and convergenceFailed(n), n being the
\* number of iterations run, followed by exactly one simulationStepCompleted;
\* when the cap ends the loop, the component states are those of the last
\* iterate.
C18_SolveBoundedByMaxIterations ==
    [][(SolveReturn /\ ~crashed')
       => /\ sim'.m_iterationCount <= Max(sim.m_maxIterations, 0)
          /\ sim'.m_lastSolve \in {"converged", "notConverged", "error"}
          /\ sim'.m_lastSolve = "converged"
             => sim'.signals = <<Signal("convergenceAchieved", 0),
                                 Signal("simulationStepCompleted", sim'.m_iterationCount)>>
          /\ sim'.m_lastSolve = "notConverged"
             => /\ sim'.signals = <<Signal("convergenceFailed", sim'.m_iterationCount),
                                    Signal("simulationStepCompleted", sim'.m_iterationCount)>>
                /\ sim'.m_iterationCount = Max(sim.m_maxIterations, 0)
                /\ IF sim'.m_iterationCount > 0
                   THEN StatesOfSolution(circuit', pins', sim')
                   ELSE circuit'.m_state = circuit.m_state /\ pins' = pins]_vars

\* a solve has been cut off by the cap after at least one iteration, with a
\* component carrying a current
C18_Witness ==
    /\ sim.m_lastSolve = "notConverged"
    /\ sim.m_iterationCount >= 1
    /\ sim.frames = <<>>
    /\ \E p \in Pins \cap Range(circuit.m_components) : pins[p].m_outputCurrent # RZero

\* C19: when the matrix solver fails during a solve, the simulator emits
\* simulationError, emits neither convergenceAchieved nor
\* simulationStepCompleted, and every component's (voltage, current) state is
\* what it was when the solve began.
C19_SolverFailureKeepsState ==
    [][(SolveReturn /\ ~crashed' /\ sim'.m_lastSolve = "error")
       => /\ sim'.signals = <<Signal("simulationError", 0)>>
          /\ circuit'.m_state = circuit.m_state
          /\ pins' = pins]_vars

\* a solve has failed in a circuit whose pin carries the current of an earlier,
\* successful solve
C19_Witness ==
    /\ sim.m_lastSolve = "error"
    /\ sim.frames = <<>>
    /\ \E p \in Pins \cap Range(circuit.m_components) : pins[p].m_outputCurrent # RZero

\* C20: a solve attempted on a circuit whose ground node has been removed is
\* aborted and reported with simulationError: the solve does not complete and
\* no component state is written back.
C20_RemovedGroundAbortsSolve ==
    [][(SolveReturn /\ ~crashed' /\ ~contains(circuit.m_nodes, circuit.m_groundNode))
       => /\ sim'.m_lastSolve = "error"
          /\ sim'.signals = <<Signal("simulationError", 0)>>
          /\ circuit'.m_state = circuit.m_state
          /\ pins' = pins]_vars

\* how often a signal occurs among the signals a call emitted
Count(signals, signal) == Cardinality({i \in DOMAIN signals : signals[i] = signal})

\* C21: setMode moves a pin from any of the five modes to any other; an actual
\* transition emits pinModeChanged exactly once and, when the old mode was
\* OUTPUT or ANALOG_OUTPUT, leaves output voltage and output current at 0;
\* setMode to the current mode changes nothing and emits nothing.
C21_ModeMachine ==
    \A p \in Pins, mode \in PinModes :
        \E r \in {setMode(pins[p], mode)} :
            /\ r.m_mode = mode
            /\ IF pins[p].m_mode # mode
               THEN /\ Count(r.emitted, "pinModeChanged") = 1
                    /\ isOutput(pins[p])
                       => r.m_outputVoltage = RZero /\ r.m_outputCurrent = RZero
               ELSE r = pins[p] /\ r.emitted = <<>>

\* a pin that was driven HIGH, carried a current in a solve and then left the
\* OUTPUT mode
C21_Witness ==
    \E p \in Pins :
        /\ pins[p].m_mode = "INPUT_PULLUP"
        /\ pins[p].m_setValue = VCC
        /\ pins[p].m_outputVoltage = RZero
        /\ pins[p].m_outputCurrent = RZero
        /\ circuit.m_state[p].m_current = <<1, 5>>

\* C22: digitalWrite on a pin that is not in OUTPUT mode changes no pin state
\* and emits nothing; on a pin in OUTPUT mode it sets the set voltage and the
\* output voltage to VCC for HIGH and to 0 for LOW, and afterwards the PWM timer
\* is stopped and the duty value is 0.
C22_DigitalWriteRequiresOutput ==
    \A p \in Pins, v \in BOOLEAN :
        \E r \in {digitalWrite(pins[p], v)} :
            IF pins[p].m_mode # "OUTPUT"
            THEN r = pins[p] /\ r.emitted = <<>>
            ELSE /\ r.m_setValue = (IF v THEN VCC ELSE GND)
                 /\ r.m_outputVoltage = (IF v THEN VCC ELSE GND)
                 /\ ~r.pwmTimerActive
                 /\ r.m_pwmValue = 0

\* a PWM pin whose timer has run and that was then written HIGH
C22_Witness ==
    \E p \in Pins :
        /\ pins[p].m_supportsPWM /\ pins[p].m_pwmPhase
        /\ pins[p].m_mode = "OUTPUT"
        /\ pins[p].m_digitalState /\ pins[p].m_outputVoltage = VCC
        /\ ~pins[p].pwmTimerActive /\ pins[p].m_pwmValue = 0

\* C23: analogWrite takes effect exactly when the pin is a PWM pin of its board
\* (Uno, Nano: 3, 5, 6, 9, 10, 11; Mega: 2..13) and is in OUTPUT mode; then the
\* set voltage becomes clamp(duty, 0, 255) / 255 * VCC; otherwise the pin state
\* is unchanged.
C23_AnalogWriteOnBoardPWMPins ==
    \A p \in Pins, duty \in Duties :
        \E r \in {analogWrite(pins[p], duty)} :
            IF /\ pins[p].m_pinNumber \in m_pwmPins(pins[p].m_boardType)
               /\ pins[p].m_mode = "OUTPUT"
            THEN r.m_setValue = RMul(Norm(clamp(duty, 0, 255), 255), VCC)
            ELSE r = pins[p]

\* the last solve ran to its end with pin p in the circuit and p's node in the
\* node-to-index map, and no solve is under way
SolvedWith(p) ==
    /\ ~crashed /\ sim.frames = <<>> /\ sim.m_initialized
    /\ sim.m_lastSolve \in {"converged", "notConverged"}
    /\ sim.m_iterationCount > 0
    /\ contains(circuit.m_components, p)
    /\ getNode(circuit, p, 0) # Null
    /\ sim.m_nodeIndices[getNode(circuit, p, 0)] >= 0

\* the voltage of p's node in the last solve
SolvedNodeVoltage(p) ==
    sim.m_matrixSolver.x[sim.m_nodeIndices[getNode(circuit, p, 0)]]

\* C24: digitalRead on a pin in an input mode returns HIGH exactly when the
\* voltage of the pin's node in the most recently completed solve is above
\* VCC / 2, whatever mode changes and solves came before (a pin switched from
\* OUTPUT to an input mode after that solve included); on a pin that is not in
\* an input mode it returns LOW.
C24_DigitalReadFollowsLastSolve ==
    \A p \in Pins :
        /\ ~isInput(pins[p]) => ~digitalRead(pins[p])
        /\ (isInput(pins[p]) /\ SolvedWith(p))
           => (digitalRead(pins[p]) <=> RLt(RDiv(VCC, Rat(2)), SolvedNodeVoltage(p)))

\* the voltages a write-back may hand to a pin; the current it hands over is
\* the voltage divided by the pin's resistance (1 V over 25 ohms is the limit
\* of 0.04 A itself)
WriteBackVoltages == {Rat(-5), Rat(0), Rat(1), Rat(2), Rat(5)}

\* C25: after every write-back the overload flag of a pin in an output mode is
\* true exactly when the magnitude of its current exceeds 0.04 A; pinOverloaded
\* is emitted on the transition from clear to overloaded and not while the pin
\* stays overloaded; the write-back changes neither the pin's mode nor its set
\* voltage, and a solve in which a pin trips overload runs to its end.
C25_OverloadMachine ==
    /\ [](\A p \in Pins, voltage \in WriteBackVoltages :
            \E current \in {RDiv(voltage, ArduinoPin_getResistance(pins[p]))} :
            \E r \in {ArduinoPin_updateState(pins[p], circuit.m_state[p].m_voltage,
                                              circuit.m_state[p].m_current,
                                              voltage, current)} :
                /\ isOutput(pins[p])
                   => (r.m_isOverloaded <=> RLt(m_maxCurrent, RAbs(current)))
                /\ Count(r.emitted, "pinOverloaded") =
                      (IF ~pins[p].m_isOverloaded /\ r.m_isOverloaded THEN 1 ELSE 0)
                /\ r.m_mode = pins[p].m_mode
                /\ r.m_setValue = pins[p].m_setValue)
    /\ [][(SolveReturn /\ ~crashed')
             => \A p \in Pins :
                   /\ (isOutput(pins'[p]) /\ pins'[p] # pins[p])
                      => (pins'[p].m_isOverloaded
                            <=> RLt(m_maxCurrent, RAbs(pins'[p].m_outputCurrent)))
                   /\ (~pins[p].m_isOverloaded /\ pins'[p].m_isOverloaded)
                      => /\ sim'.m_lastSolve \in {"converged", "notConverged"}
                         /\ pins'[p].m_mode = pins[p].m_mode
                         /\ pins'[p].m_setValue = pins[p].m_setValue]_vars

\* a solve has run to its end and left an OUTPUT pin overloaded
C25_Witness ==
    \E p \in Pins :
        /\ pins[p].m_mode = "OUTPUT" /\ pins[p].m_isOverloaded
        /\ RLt(m_maxCurrent, pins[p].m_outputCurrent)
        /\ sim.m_lastSolve = "converged" /\ sim.frames = <<>>

\* the LED l has its anode on the node of pin p, the pin is OUTPUT HIGH, and
\* the cathode of the LED is unconnected; both are in the circuit
FloatingLed(p, l) ==
    /\ contains(circuit.m_components, p) /\ contains(circuit.m_components, l)
    /\ getNode(circuit, l, 0) # Null
    /\ getNode(circuit, l, 0) = getNode(circuit, p, 0)
    /\ contains(circuit.m_nodes, getNode(circuit, l, 0))
    /\ getNode(circuit, l, 1) = Null
    /\ pins[p].m_mode = "OUTPUT" /\ pins[p].m_outputVoltage = VCC

\* C26: for an LED with its anode on the node of an OUTPUT HIGH pin and its
\* cathode unconnected, the validation reports a floating node, and a solve ends
\* as converged with LED current 0 and m_isOn false.
C26_FloatingLed ==
    /\ [](\A p \in Pins, l \in Leds :
            FloatingLed(p, l)
            => \E issue \in getConnectionIssues(circuit) : issue[1] = "floating node")
    /\ [][\A p \in Pins, l \in Leds :
             (SolveReturn /\ ~crashed' /\ FloatingLed(p, l))
             => /\ sim'.m_lastSolve = "converged"
                /\ circuit'.m_state[l].m_current = RZero
                /\ ~circuit'.m_led[l].m_isOn]_vars

\* the number of (component, terminal) incidences over the nodes of the node list
RECURSIVE incidencesFrom(_, _)
incidencesFrom(g, i) ==
    IF i > Len(g.m_nodes) THEN 0
    ELSE Len(g.m_connections[g.m_nodes[i]]) + incidencesFrom(g, i + 1)

TotalIncidences(g) == incidencesFrom(g, 1)

\* connect(c1, t1, c2, t2) with both terminals bound to different nodes: the
\* outcome of the call is the merge the interface describes
MergeOutcome(c1, t1, c2, t2) ==
    LET node1 == getNode(circuit, c1, t1)
        node2 == getNode(circuit, c2, t2)
        r == connectComponents(circuit, c1, t1, c2, t2, Null)
    IN /\ r.ret
       /\ getNode(r.g, c1, t1) = node1
       /\ contains(circuit.m_nodes, node1) => contains(r.g.m_nodes, node1)
       /\ \A i \in 1..Len(circuit.m_connections[node2]) :
             LET pr == circuit.m_connections[node2][i]
             IN /\ getNode(r.g, pr[1], pr[2]) = node1
                /\ pr \in Range(r.g.m_connections[node1])
       /\ ~contains(r.g.m_nodes, node2)
       /\ TotalIncidences(r.g) = TotalIncidences(circuit)

\* connect(c1, t1, c2, t2) with both terminals unbound: one fresh node with
\* exactly the two incidences, every other node as it was
FreshOutcome(c1, t1, c2, t2, fresh) ==
    LET r == connectComponents(circuit, c1, t1, c2, t2, fresh)
    IN /\ r.ret
       /\ r.g.m_nodes = Append(circuit.m_nodes, fresh)
       /\ r.g.m_connections[fresh] = <<<<c1, t1>>, <<c2, t2>>>>
       /\ \A n \in Range(circuit.m_nodes) : r.g.m_connections[n] = circuit.m_connections[n]
       /\ getNode(r.g, c1, t1) = fresh /\ getNode(r.g, c2, t2) = fresh

\* C28: connect with both terminals bound to different nodes keeps the node of
\* the first terminal, rebinds every incidence of the other node onto it, takes
\* the other node off the node list and leaves the number of incidences
\* unchanged; connect of two unbound terminals creates exactly one fresh node
\* holding exactly those two incidences.
C28_ConnectMergesOrCreates ==
    ~crashed =>
    \A c1, c2 \in LiveComps, t1, t2 \in Terminals :
        (ValidTerminal(c1, t1) /\ ValidTerminal(c2, t2)) =>
        LET node1 == getNode(circuit, c1, t1)
            node2 == getNode(circuit, c2, t2)
        IN /\ (node1 # Null /\ node2 # Null /\ node1 # node2
                /\ ~connectComponents(circuit, c1, t1, c2, t2, Null).g.ub)
               => MergeOutcome(c1, t1, c2, t2)
           /\ (node1 = Null /\ node2 = Null)
               => \A fresh \in FreeNodeAddrs(circuit) : FreshOutcome(c1, t1, c2, t2, fresh)

\* C29: a triggerUpdate call made while a deferred update is pending is
\* dropped, whatever time has passed since the last solve: it starts no solve
\* and arms no further timer.
C29_PendingTriggerIsDropped ==
    (~crashed /\ ~sim.deadlocked /\ InTime /\ sim.m_updatePending) =>
    LET s == triggerUpdate(sim, now, circuit, pins)
    IN /\ s.frames = sim.frames
       /\ s.timerActive = sim.timerActive
       /\ s.timerDeadline = sim.timerDeadline
       /\ s.m_updatePending

\* the map m_nodeIndices is a bijection from the node list of g onto 0..k-1,
\* the ground node at index 0 and the other nodes in the order of the list
FreshIndexing(idx, g) ==
    LET nodes == g.m_nodes
        k == Cardinality(Range(nodes))
    IN /\ \A n \in NodeIds : idx[n] >= 0 <=> contains(nodes, n)
       /\ {idx[n] : n \in Range(nodes)} = 0..(k - 1)
       /\ \A n \in Range(nodes) : g.m_isGround[n] => idx[n] = 0
       /\ \A i, j \in 1..Len(nodes) :
             (i < j /\ ~g.m_isGround[nodes[i]] /\ ~g.m_isGround[nodes[j]])
             => idx[nodes[i]] < idx[nodes[j]]

\* C30: when a solve is about to stamp, the node-to-index map is a bijection
\* from the current node list onto 0..k-1 with the ground node at index 0 and
\* the other nodes in insertion order, and the matrix dimension is k, whatever
\* topology edits were made since the previous solve.
C30_IndexingFreshAtEverySolve ==
    (~crashed /\ ~sim.deadlocked /\ sim.frames # <<>>) =>
        /\ FreshIndexing(sim.m_nodeIndices, circuit)
        /\ sim.m_matrixSolver.dim = Cardinality(Range(circuit.m_nodes))

\* C31: after the last convergence check of a solve, the stored previous
\* (V, I) pair of every component of the circuit is the pair of the iteration
\* just checked, so the next check compares against the preceding iteration.
C31_PreviousValuesAreLastIteration ==
    [][(SolveReturn /\ ~crashed'
          /\ sim'.m_lastSolve \in {"converged", "notConverged"}
          /\ sim'.m_iterationCount >= 1)
       => \A c \in Range(circuit'.m_components) :
             sim'.m_prevValues[c]
                = <<getVoltage(c, circuit', pins'), getCurrent(c, circuit', pins')>>]_vars

\* C33: a solve leaves the node of an OUTPUT pin whose voltage V is above
\* 0.01 V at exactly V, whatever the order of the component list, also when a
\* component on the same node is stamped after the pin.
C33_OutputPinNodeAtSetVoltage ==
    [][(SolveReturn /\ ~crashed'
          /\ sim'.m_lastSolve \in {"converged", "notConverged"}
          /\ sim'.m_iterationCount >= 1)
       => \A p \in Pins \cap Range(circuit.m_components) :
             (/\ isOutput(pins[p])
              /\ RLt(OutputThreshold, pins[p].m_outputVoltage)
              /\ getNode(circuit, p, 0) # Null
              /\ sim.m_nodeIndices[getNode(circuit, p, 0)] >= 0)
             => sim'.m_matrixSolver.x[sim.m_nodeIndices[getNode(circuit, p, 0)]]
                   = pins[p].m_outputVoltage]_vars

\* C34: a pin that has re-entered OUTPUT mode drives no voltage until it is
\* written again.  Entering OUTPUT leaves the output voltage at 0, and only a
\* write may raise it: a solve, its write-back included, leaves the output
\* voltage of an OUTPUT pin that drives 0 V at 0.
C34_ReenteredOutputDrivesNothing ==
    [][(SolveReturn /\ ~crashed')
       => \A p \in Pins :
             (/\ pins[p].m_mode = "OUTPUT"
              /\ pins[p].m_outputVoltage = RZero
              /\ ~pins[p].pwmTimerActive)
             => pins'[p].m_outputVoltage = RZero]_vars

\* C35: a pin in a non-output mode has output voltage 0 and raises no
\* componentChanged, also when the PWM timer started by an earlier analogWrite
\* ticks.
C35_NonOutputPinIsSilent ==
    \A p \in Pins :
        (~crashed /\ pins[p].m_mode \in {"INPUT", "INPUT_PULLUP", "ANALOG_INPUT"})
        => /\ pins[p].m_outputVoltage = RZero
           /\ pins[p].pwmTimerActive
                 => Count(updatePWMOutput(pins[p]).emitted, "componentChanged") = 0

\* C36: every wire of the wire list is in the component list and has not been
\* scheduled for deletion; after removeComponent(w) the wire w is not in the
\* wire list any more.
C36_WireListWithinComponentList ==
    ~crashed =>
    \A i \in 1..Len(circuit.m_wires) :
        /\ contains(circuit.m_components, circuit.m_wires[i])
        /\ circuit.compMem[circuit.m_wires[i]] = "live"

\* C37: every entry of the name-to-node mapping refers to a node of the node
\* list, so findOrCreateNode(name) never returns a deleted node, and "GND" and
\* "GROUND" map to the current ground node.
C37_NamedNodesAreListed ==
    ~crashed =>
    /\ \A name \in Names :
          circuit.m_namedNodes[name] # Null =>
              contains(circuit.m_nodes, findOrCreateNode(circuit, name, Null).ret)
    /\ \A name \in {"GND", "GROUND"} :
          circuit.m_namedNodes[name] = circuit.m_groundNode

\* C32: the simulated time advances by exactly one time step per completed
\* solve, and no step other than a reset decreases it, also when a topology
\* change forces a re-initialisation.
C32_TimeAdvancesPerSolve ==
    [][/\ (~crashed' /\ ~(Reset \/ HandlerReset))
           => sim'.m_simulationTime >= sim.m_simulationTime
       /\ (SolveReturn /\ ~crashed'
             /\ sim'.m_lastSolve \in {"converged", "notConverged"})
           => sim'.m_simulationTime = sim.m_simulationTime + 1]_vars

\* C38: no simulator operation called from a slot during a solve that
\* doUpdate started blocks forever: reset() returns while doUpdate holds the
\* simulation lock, and doUpdate goes on to clear the updating flag.
C38_HandlerCallsReturn ==
    (~crashed /\ sim.frames # <<>> /\ sim.frames[Len(sim.frames)] = "doUpdate") =>
        /\ ~sim.deadlocked
        /\ ~reset(sim, circuit, pins).s.deadlocked

\* the call that takes the simulator from s to s2 started no solve
NoSolveStarted(s, s2) == s2.frames = s.frames /\ s2.m_lastSolve = s.m_lastSolve

\* the simulator s is not running: neither triggerUpdate nor a circuit-changed
\* notification nor the expiry of the update timer starts a solve, now or later
StoppedStartsNoSolve(s) ==
    \A t \in now..MaxTime :
        /\ NoSolveStarted(s, triggerUpdate(s, t, circuit, pins))
        /\ NoSolveStarted(s, onCircuitChanged(s, t, circuit, pins))
        /\ NoSolveStarted(s, doUpdate([s EXCEPT !.timerActive = FALSE], t, circuit, pins))

\* C39: stop() on a running simulator clears the pending flag and cancels the
\* timer; while the simulator is not running, neither triggerUpdate nor a
\* circuit-changed notification nor a deferred update that was scheduled
\* starts a solve.
C39_StoppedSimulatorStartsNoSolve ==
    (~crashed /\ ~sim.deadlocked) =>
        /\ sim.m_running =>
              /\ ~stop(sim).m_running
              /\ ~stop(sim).timerActive
              /\ ~stop(sim).m_updatePending
        /\ StoppedStartsNoSolve(stop(sim))
        /\ ~sim.m_running => StoppedStartsNoSolve(sim)

\* the simulator has solved on the scheduler's account, was stopped, and a
\* triggerUpdate after the stop has left a deferred update pending
C39_Witness ==
    /\ ~sim.m_running /\ sim.frames = <<>> /\ ~sim.deadlocked
    /\ obs.lastSolveAt >= 0
    /\ sim.timerActive /\ sim.m_updatePending

====
